---- MODULE Spec2Model ----
(***************************************************************************)
(* Match resolution of rankedcode: the join, submit and forfeit handlers   *)
(* of server/index.js running concurrently against the single shared       *)
(* SQLite connection of server/db.js, and the rating update of             *)
(* server/elo.js.  Every `await` of a handler is one step of the model, so *)
(* two requests interleave exactly where the event loop can switch.        *)
(* The judging engine of the same file follows: the execution router with  *)
(* its local runners and spawned processes, the test run and the submit    *)
(* validation, the test-case deriver and the output matcher.               *)
(***************************************************************************)
EXTENDS Integers, Sequences, FiniteSets, TLC

\* ------------------------------------------------------------------ bounds

\* Requests that arrive in one behaviour.
MaxRequests == 3
\* Largest value of the millisecond clock (new Date()).
MaxClock == 1

\* ------------------------------------------------------------- the database

\* SQL NULL of the nullable INTEGER/TEXT columns of match_players.
Null == -1

Users == {"u1", "u2", "u3"}

\* ORDER BY user_id: the order of the user ids.
UserRank == [u \in Users |-> CASE u = "u1" -> 1 [] u = "u2" -> 2 [] u = "u3" -> 3]

\* Requests in flight at once (each is one invocation of an async handler).
Slots == {"r1", "r2"}
MaxInFlight == Cardinality(Slots)

\* users.elo values present when the match is created.
EloInit == {1200, 1400}

\* Runtimes in ms a client or the validation run may report.
Runtimes == {50, 200}

\* Number of test cases runAllTestsForSubmit may derive.
TestTotals == {0, 2}

VARIABLES
  db,        \* committed-or-pending content of the connection: the match row,
             \* the match_players rows of the match, users.elo
  tx,        \* the connection's transaction state: open flag and the content
             \* to restore on ROLLBACK
  reqs,      \* per user: the handler invocation in flight, its position and
             \* its locals
  last,      \* the response sent by the step just taken (NoResp: none)
  clock,     \* the wall clock in ms
  started,   \* requests arrived so far
  exec,      \* one execution call (POST /api/run): the position of
             \* runCodeOnce, its working directory and spawned processes
  judge      \* one judging call: a test run, a submit validation or the
             \* application of one function of the deriver or the matcher

vars == <<db, tx, reqs, last, clock, started, exec, judge>>

\* No execution call and no judging call.
NoExec == [pc |-> "none"]
NoJudge == [pc |-> "none"]

\* A match_players row that does not exist.
NoRow ==
  [present |-> FALSE, elo_before |-> Null, elo_after |-> Null,
   runtime_ms |-> Null, submitted_at |-> Null, is_winner |-> Null]

\* INSERT INTO match_players (id, match_id, user_id, elo_before): the other
\* columns are NULL.
NewRow(elo) ==
  [present |-> TRUE, elo_before |-> elo, elo_after |-> Null,
   runtime_ms |-> Null, submitted_at |-> Null, is_winner |-> Null]

\* The users that have a match_players row of the match.
PlayersOf(d) == {u \in Users : d.rows[u].present}

\* No transaction is open on the connection.
NoSnap ==
  [status |-> "none", ranked |-> FALSE, rows |-> [u \in Users |-> NoRow],
   elo |-> [u \in Users |-> 0]]

NoTx == [open |-> FALSE, snap |-> NoSnap]

\* db.run("BEGIN") on the shared connection: SQLite refuses a transaction
\* within a transaction, so the call throws while one is open.
BeginThrows(t) == t.open

\* The transaction state after a successful BEGIN.
Begun(d) == [open |-> TRUE, snap |-> d]

\* A ROLLBACK that would keep the writes of the transaction.
RolledBackKeepsWrites(t, d) == d

\* The content of the connection after db.run("ROLLBACK").
RolledBack(t, d) == IF t.open THEN t.snap ELSE d

\* UPDATE match_players SET ... WHERE match_id = ? AND user_id = ?: changes
\* the row when it exists, nothing otherwise.
UpdateRow(d, u, row) == IF d.rows[u].present THEN [d EXCEPT !.rows[u] = row] ELSE d

\* UPDATE users SET elo = ? WHERE id = ?
UpdateElo(d, u, e) == [d EXCEPT !.elo[u] = e]

\* UPDATE matches SET status = ? WHERE id = ?: nothing when the match row
\* has been deleted.
UpdateStatus(d, s) == IF d.status = "none" THEN d ELSE [d EXCEPT !.status = s]

\* DELETE FROM matches WHERE id = ?, with ON DELETE CASCADE on match_players.
DeleteMatch(d) == [d EXCEPT !.status = "none", !.rows = [u \in Users |-> NoRow]]

\* ------------------------------------------------------- server/elo.js

\* Fixed-point unit of the expected score: one millionth.
Micro == 10^6

\* Rating differences eloB - eloA for which the expected score is tabulated.
EloDiffs == {-200, -100, -48, -32, -16, 0, 16, 32, 48, 100, 200}

\* 1 / (1 + Math.pow(10, (eloB - eloA) / 400)) in millionths, rounded to the
\* nearest; tabulated because the model has no real exponentiation.
expectedScore(eloA, eloB) ==
  LET d == eloB - eloA
  IN  CASE d = -200 -> 759747 [] d = -100 -> 640065 [] d = -48 -> 568641
        [] d = -32 -> 545922 [] d = -16 -> 523010 [] d = 0 -> 500000
        [] d = 16 -> 476990 [] d = 32 -> 454078 [] d = 48 -> 431359
        [] d = 100 -> 359935 [] d = 200 -> 240253

\* A ratio is the pair <<numerator, denominator>>, denominator positive.
RatLess(x, y) == x[1] * y[2] < y[1] * x[2]
MathMax(x, y) == IF RatLess(x, y) THEN y ELSE x
MathMin(x, y) == IF RatLess(y, x) THEN y ELSE x

\* Math.round of the ratio n / d, d > 0: the nearest integer, halves up.
MathRound(n, d) == (2 * n + d) \div (2 * d)

\* A clamp that would have no upper end.
clampFromBelow(value, min, max) == MathMax(min, value)

clamp(value, min, max) == MathMin(max, MathMax(min, value))

baseK == 32

\* k = Math.round(baseK * kMultiplier)
KFactor(runtimeA, runtimeB) ==
  LET kMultiplier ==
        IF runtimeA # Null /\ runtimeB # Null /\ runtimeA > 0 /\ runtimeB > 0
        THEN clamp(<<runtimeB, runtimeA>>, <<3, 4>>, <<3, 2>>)
        ELSE <<1, 1>>
  IN  MathRound(baseK * kMultiplier[1], kMultiplier[2])

\* Math.round(elo + k * (score - expected)); score2 is twice the score
\* (0, 1 or 2).  elo is an integer, so the rounding acts on the k term.
NewElo(elo, k, score2, expected) ==
  elo + MathRound(k * (score2 * Micro - 2 * expected), 2 * Micro)

computeEloUpdate(eloA, eloB, score2A, score2B, runtimeA, runtimeB) ==
  LET expectedA == expectedScore(eloA, eloB)
      expectedB == expectedScore(eloB, eloA)
      k == KFactor(runtimeA, runtimeB)
  IN  [newEloA |-> NewElo(eloA, k, score2A, expectedA),
       newEloB |-> NewElo(eloB, k, score2B, expectedB),
       k |-> k]

\* ------------------------------------------------------------- the requests

\* A response: its kind (the status code or the status field of the body)
\* and the fields of the body; computed tells the payload of the request
\* that finalized from the payload read back from a complete match.
NoResp ==
  [op |-> "none", user |-> "none", kind |-> "none", computed |-> FALSE,
   isWinner |-> Null, eloDelta |-> 0, passed |-> 0, total |-> 0,
   winnerId |-> "none", k |-> 0]

\* No handler invocation, with the locals unset.  tested notes, for a
\* submit about to be recorded, that every derived test case has passed.
Idle ==
  [op |-> "none", user |-> "none", pc |-> "idle", mstatus |-> "none",
   runtimeMs |-> 0, tested |-> FALSE, elo |-> 0,
   a |-> "none", b |-> "none", me |-> FALSE, befA |-> 0, befB |-> 0,
   newA |-> 0, newB |-> 0, winA |-> 0, winB |-> 0,
   winnerId |-> "none", k |-> 0]

Reply(q, kind) == [NoResp EXCEPT !.op = q.op, !.user = q.user, !.kind = kind]

\* ------------------------------------------------------------------- Init

\* POST /api/matches: an unranked match in status waiting with its creator.
CreatedMatch(e) ==
  [status |-> "waiting", ranked |-> FALSE,
   rows |-> [u \in Users |-> IF u = "u1" THEN NewRow(e[u]) ELSE NoRow],
   elo |-> e]

\* POST /api/queue/join: a ranked match in status active with both players.
QueuedMatch(e) ==
  [status |-> "active", ranked |-> TRUE,
   rows |-> [u \in Users |-> IF u \in {"u1", "u2"} THEN NewRow(e[u]) ELSE NoRow],
   elo |-> e]

\* users.elo: 1200 is the column default; the first player of a ranked match
\* may have a higher rating.
DefaultElo == [u \in Users |-> 1200]

Init ==
  /\ db \in {CreatedMatch(DefaultElo)}
            \cup {QueuedMatch([DefaultElo EXCEPT !["u1"] = e1]) : e1 \in EloInit}
  /\ tx = NoTx
  /\ reqs = [u \in Users |-> Idle]
  /\ last = NoResp
  /\ clock = 0
  /\ started = 0
  /\ exec = NoExec
  /\ judge = NoJudge

\* --------------------------------------------------------------- arrival

\* The users with a request in flight.
InFlight == {u \in Users : reqs[u].pc # "idle"}

\* A request arrives: authMiddleware has set req.user, the handler has run up
\* to its first await.  A client sends its requests one after another, so a
\* user has one request in flight; different users' requests overlap.
Start(op, u) ==
  /\ started < MaxRequests
  /\ Cardinality(InFlight) < MaxInFlight
  /\ u \notin InFlight
  /\ started' = started + 1
  /\ reqs' = [reqs EXCEPT ![u] = [Idle EXCEPT !.op = op, !.user = u, !.pc = "match"]]
  /\ last' = NoResp
  /\ UNCHANGED <<db, tx, clock, exec, judge>>

\* The handler q moves on to its next await with the locals q2.
Goto(q, q2) ==
  /\ reqs' = [reqs EXCEPT ![q.user] = q2]
  /\ last' = NoResp
  /\ UNCHANGED <<started, exec, judge>>

\* The handler q returns (or throws) with the response resp.
Finish(q, resp) ==
  /\ reqs' = [reqs EXCEPT ![q.user] = Idle]
  /\ last' = resp
  /\ UNCHANGED <<started, exec, judge>>

At(q, op, pc) == q.op = op /\ q.pc = pc

\* ------------------------------------------- POST /api/matches/:id/join

\* SELECT * FROM matches; 404 without a match, 400 unless it is waiting.
JoinReadMatch(q) ==
  /\ At(q, "join", "match")
  /\ IF db.status = "none" THEN Finish(q, Reply(q, "404"))
     ELSE IF db.status # "waiting" THEN Finish(q, Reply(q, "400 started"))
     ELSE Goto(q, [q EXCEPT !.pc = "existing", !.mstatus = db.status])
  /\ UNCHANGED <<db, tx, clock>>

\* SELECT id FROM match_players ... AND user_id = ?: already a player.
JoinReadExisting(q) ==
  /\ At(q, "join", "existing")
  /\ IF db.rows[q.user].present THEN Finish(q, Reply(q, "joined"))
     ELSE Goto(q, [q EXCEPT !.pc = "count"])
  /\ UNCHANGED <<db, tx, clock>>

\* SELECT COUNT(*) FROM match_players: 400 when the match is full.
JoinReadCount(q) ==
  /\ At(q, "join", "count")
  /\ IF Cardinality(PlayersOf(db)) >= 2 THEN Finish(q, Reply(q, "400 full"))
     ELSE Goto(q, [q EXCEPT !.pc = "user"])
  /\ UNCHANGED <<db, tx, clock>>

\* SELECT id, elo FROM users
JoinReadUser(q) ==
  /\ At(q, "join", "user")
  /\ Goto(q, [q EXCEPT !.pc = "insert", !.elo = db.elo[q.user]])
  /\ UNCHANGED <<db, tx, clock>>

\* INSERT INTO match_players: throws on UNIQUE(match_id, user_id) and on the
\* foreign key when the match row is gone.
JoinInsert(q) ==
  /\ At(q, "join", "insert")
  /\ IF db.rows[q.user].present \/ db.status = "none"
     THEN Finish(q, Reply(q, "insert failed")) /\ UNCHANGED db
     ELSE /\ db' = [db EXCEPT !.rows[q.user] = NewRow(q.elo)]
          /\ Goto(q, [q EXCEPT !.pc = "activate"])
  /\ UNCHANGED <<tx, clock>>

\* UPDATE matches SET status = 'active'
JoinActivate(q) ==
  /\ At(q, "join", "activate")
  /\ db' = UpdateStatus(db, "active")
  /\ Finish(q, Reply(q, "joined"))
  /\ UNCHANGED <<tx, clock>>

\* ----------------------------------------- POST /api/matches/:id/submit

\* What runAllTestsForSubmit can return: { allPassed, failedCount, total,
\* maxRunTimeMs }.  Without a derived case it reports total 0 and one failure.
ValidationResults ==
  {[total |-> 0, failedCount |-> 1, maxRunTimeMs |-> Null]}
  \cup {v \in [total : TestTotals \ {0}, failedCount : 0..2,
                 maxRunTimeMs : Runtimes \cup {Null}] : v.failedCount <= v.total}

allPassed(v) == v.failedCount = 0

\* if (validation.total > 0) { if (!validation.allPassed) return 400 ... }
ValidationRejects(v) == v.total > 0 /\ ~allPassed(v)

\* The runtime to record after a validation that did not reject.
ValidatedRuntime(v, clientRuntimeMs) ==
  IF v.total > 0 /\ v.maxRunTimeMs # Null THEN v.maxRunTimeMs ELSE clientRuntimeMs

\* if (!runtimeMs || runtimeMs <= 0) return 400
RuntimeMissing(runtimeMs) == runtimeMs <= 0

\* new Date(): the clock does not run backwards.
Now(t) == t = clock \/ (t = clock + 1 /\ t <= MaxClock)

\* SELECT * FROM matches; 404 without a match, 400 when it is complete.
SubmitReadMatch(q) ==
  /\ At(q, "submit", "match")
  /\ IF db.status = "none" THEN Finish(q, Reply(q, "404"))
     ELSE IF db.status = "complete" THEN Finish(q, Reply(q, "400 complete"))
     ELSE Goto(q, [q EXCEPT !.pc = "player", !.mstatus = db.status])
  /\ UNCHANGED <<db, tx, clock>>

\* The runtimeMs field of a request body: absent (0) or a runtime.
ClientRuntimes == Runtimes \cup {0}

\* SELECT id FROM match_players: 403 for a caller who is no player.  Without
\* code and language no validation runs and the client's runtime is checked.
\* The fields of the request body are drawn where the handler first reads
\* them: nothing observes them earlier.
SubmitReadPlayer(q) ==
  /\ At(q, "submit", "player")
  /\ IF ~db.rows[q.user].present THEN Finish(q, Reply(q, "403"))
     ELSE \E code \in BOOLEAN, clientRuntimeMs \in ClientRuntimes :
            IF code THEN Goto(q, [q EXCEPT !.pc = "validate"])
            ELSE IF RuntimeMissing(clientRuntimeMs) THEN Finish(q, Reply(q, "400 runtime"))
            ELSE Goto(q, [q EXCEPT !.pc = "record", !.runtimeMs = clientRuntimeMs])
  /\ UNCHANGED <<db, tx, clock>>

\* A validation step that would record the client's runtime before it looks
\* at the result of the test run.
SubmitValidateRecordsFirst(q) ==
  /\ At(q, "submit", "validate")
  /\ \E v \in ValidationResults, clientRuntimeMs \in ClientRuntimes :
       /\ db' = UpdateRow(db, q.user,
                  [db.rows[q.user] EXCEPT !.runtime_ms = clientRuntimeMs,
                                                !.submitted_at = clock])
       /\ IF ValidationRejects(v)
          THEN Finish(q, [Reply(q, "400 tests") EXCEPT !.passed = v.total - v.failedCount,
                                                       !.total = v.total])
          ELSE IF RuntimeMissing(ValidatedRuntime(v, clientRuntimeMs))
          THEN Finish(q, Reply(q, "400 runtime"))
          ELSE Goto(q, [q EXCEPT !.pc = "record",
                          !.runtimeMs = ValidatedRuntime(v, clientRuntimeMs),
                          !.tested = v.total > 0 /\ allPassed(v)])
  /\ UNCHANGED <<tx, clock>>

\* await runAllTestsForSubmit(...): reject with the pass count, or go on with
\* the measured runtime.
SubmitValidate(q) ==
  /\ At(q, "submit", "validate")
  /\ \E v \in ValidationResults, clientRuntimeMs \in ClientRuntimes :
       IF ValidationRejects(v)
       THEN Finish(q, [Reply(q, "400 tests") EXCEPT !.passed = v.total - v.failedCount,
                                                    !.total = v.total])
       ELSE IF RuntimeMissing(ValidatedRuntime(v, clientRuntimeMs))
       THEN Finish(q, Reply(q, "400 runtime"))
       ELSE Goto(q, [q EXCEPT !.pc = "record",
                       !.runtimeMs = ValidatedRuntime(v, clientRuntimeMs),
                       !.tested = v.total > 0 /\ allPassed(v)])
  /\ UNCHANGED <<db, tx, clock>>

\* UPDATE match_players SET runtime_ms = ?, submitted_at = ?
SubmitRecord(q) ==
  /\ At(q, "submit", "record")
  /\ \E t \in 0..MaxClock :
       /\ Now(t)
       /\ clock' = t
       /\ db' = UpdateRow(db, q.user,
                  [db.rows[q.user] EXCEPT !.runtime_ms = q.runtimeMs,
                                                !.submitted_at = t])
  /\ Goto(q, [q EXCEPT !.pc = "begin", !.runtimeMs = 0, !.tested = FALSE])
  /\ UNCHANGED tx

\* await db.run("BEGIN"), outside the try block: a throw ends the handler.
SubmitBegin(q) ==
  /\ At(q, "submit", "begin")
  /\ IF BeginThrows(tx)
     THEN Finish(q, Reply(q, "begin failed")) /\ UNCHANGED tx
     ELSE tx' = Begun(db) /\ Goto(q, [q EXCEPT !.pc = "matchNow"])
  /\ UNCHANGED <<db, clock>>

\* matchNow = SELECT * FROM matches; matchNow.status throws without a row.
SubmitReadMatchNow(q) ==
  /\ At(q, "submit", "matchNow")
  /\ Goto(q, [q EXCEPT !.pc =
       CASE db.status = "none" -> "catch"
         [] db.status = "complete" -> "completeRollback"
         [] OTHER -> "players"])
  /\ UNCHANGED <<db, tx, clock>>

\* matchNow.status === "complete": ROLLBACK
SubmitCompleteRollback(q) ==
  /\ At(q, "submit", "completeRollback")
  /\ db' = RolledBack(tx, db)
  /\ tx' = NoTx
  /\ Goto(q, [q EXCEPT !.pc = "playersAfter"])
  /\ UNCHANGED clock

\* The outcome reported to a caller who finds the match complete.
RecordedOutcome(d, q) ==
  LET meRow == d.rows[q.user]
      hasWinner == \E u \in PlayersOf(d) : d.rows[u].is_winner = 1
  IN  [Reply(q, "complete") EXCEPT
         !.isWinner = IF ~hasWinner THEN Null
                      ELSE IF meRow.present /\ meRow.is_winner = 1 THEN 1 ELSE 0,
         !.eloDelta = IF meRow.present /\ meRow.elo_after # Null /\ meRow.elo_before # Null
                      THEN meRow.elo_after - meRow.elo_before ELSE 0]

\* playersAfter = SELECT ...; res.json({ status: "complete", isWinner, eloDelta })
SubmitReadPlayersAfter(q) ==
  /\ At(q, "submit", "playersAfter")
  /\ Finish(q, RecordedOutcome(db, q))
  /\ UNCHANGED <<db, tx, clock>>

\* SELECT ... FROM match_players WHERE match_id = ? ORDER BY user_id
OrderedPlayers(d) ==
  LET ps == PlayersOf(d)
      Nth(i) == CHOOSE u \in ps : Cardinality({w \in ps : UserRank[w] < UserRank[u]}) = i - 1
  IN  [i \in 1..Cardinality(ps) |-> Nth(i)]

\* p.submitted_at ? new Date(p.submitted_at).getTime() : Infinity
Infinity == MaxClock + 1

\* A comparison key that would be the measured runtime.
submittedAtIsRuntime(row) == IF row.runtime_ms # Null THEN row.runtime_ms ELSE Infinity

submittedAt(row) == IF row.submitted_at # Null THEN row.submitted_at ELSE Infinity

\* A check that would look at the number of players only.
NotBothSubmittedCountsRows(d) == Cardinality(PlayersOf(d)) < 2

\* players.length < 2 || players.some((p) => p.runtime_ms == null)
NotBothSubmitted(d) ==
  \/ Cardinality(PlayersOf(d)) < 2
  \/ \E u \in PlayersOf(d) : d.rows[u].runtime_ms = Null

\* The winner rule and the rating update of the finalize step, for the first
\* two players a and b of the ordered list: the locals the writes use.
Finalized(d, q) ==
  LET players == OrderedPlayers(d)
      a == players[1]
      b == players[2]
      ra == d.rows[a]
      rb == d.rows[b]
      aFirst == submittedAt(ra) < submittedAt(rb)
      bFirst == submittedAt(rb) < submittedAt(ra)
      score2A == IF aFirst THEN 2 ELSE IF bFirst THEN 0 ELSE 1
      score2B == IF aFirst THEN 0 ELSE IF bFirst THEN 2 ELSE 1
      winnerId == IF aFirst THEN a ELSE IF bFirst THEN b ELSE "none"
      ranked == d.ranked
      eloUpdate == computeEloUpdate(ra.elo_before, rb.elo_before, score2A, score2B,
                                    ra.runtime_ms, rb.runtime_ms)
  IN  [q EXCEPT !.a = a, !.b = b, !.me = d.rows[q.user].present,
                !.befA = ra.elo_before, !.befB = rb.elo_before,
                !.newA = IF ranked THEN eloUpdate.newEloA ELSE ra.elo_before,
                !.newB = IF ranked THEN eloUpdate.newEloB ELSE rb.elo_before,
                !.winA = IF a = winnerId THEN 1 ELSE 0,
                !.winB = IF b = winnerId THEN 1 ELSE 0,
                !.winnerId = winnerId,
                !.k = IF ranked THEN eloUpdate.k ELSE 0]

\* players = SELECT ...: ROLLBACK and report waiting unless both players have
\* a runtime; otherwise compute the outcome.
SubmitReadPlayers(q) ==
  /\ At(q, "submit", "players")
  /\ IF NotBothSubmitted(db)
     THEN /\ db' = RolledBack(tx, db)
          /\ tx' = NoTx
          /\ Finish(q, Reply(q, "waiting"))
     ELSE /\ Goto(q, [Finalized(db, q) EXCEPT !.pc = "rowA"])
          /\ UNCHANGED <<db, tx>>
  /\ UNCHANGED clock

\* A write inside the try block: it takes effect, or it throws into the catch.
TxWrite(q, pc, next, d) ==
  /\ q.pc = pc
  /\ \/ /\ db' = d
        /\ Goto(q, [q EXCEPT !.pc = next])
     \/ /\ Goto(q, [q EXCEPT !.pc = "catch"])
        /\ UNCHANGED db
  /\ UNCHANGED <<tx, clock>>

\* The elo_after and is_winner columns of a row.
Outcome(row, elo, win) == [row EXCEPT !.elo_after = elo, !.is_winner = win]

\* UPDATE match_players SET elo_after = ?, is_winner = ? ... user_id = a
SubmitWriteRowA(q) ==
  /\ q.op = "submit"
  /\ TxWrite(q, "rowA", "rowB", UpdateRow(db, q.a, Outcome(db.rows[q.a], q.newA, q.winA)))

\* UPDATE match_players SET elo_after = ?, is_winner = ? ... user_id = b
SubmitWriteRowB(q) ==
  /\ q.op = "submit"
  /\ TxWrite(q, "rowB", IF db.ranked THEN "eloA" ELSE "status",
                 UpdateRow(db, q.b, Outcome(db.rows[q.b], q.newB, q.winB)))

\* if (ranked) UPDATE users SET elo = finalEloA
SubmitWriteEloA(q) ==
  /\ q.op = "submit"
  /\ TxWrite(q, "eloA", "eloB", UpdateElo(db, q.a, q.newA))

\* if (ranked) UPDATE users SET elo = finalEloB
SubmitWriteEloB(q) ==
  /\ q.op = "submit"
  /\ TxWrite(q, "eloB", "status", UpdateElo(db, q.b, q.newB))

\* UPDATE matches SET status = 'complete'
SubmitWriteStatus(q) ==
  /\ q.op = "submit"
  /\ TxWrite(q, "status", "commit", UpdateStatus(db, "complete"))

\* resultPayload = { status: "complete", winnerId, k, ranked, isWinner, eloDelta }
ResultPayload(q, ranked) ==
  [Reply(q, "complete") EXCEPT
     !.computed = TRUE,
     !.winnerId = q.winnerId,
     !.k = q.k,
     !.isWinner = IF q.winnerId = "none" THEN Null
                  ELSE IF q.winnerId = q.user THEN 1 ELSE 0,
     !.eloDelta = IF ranked /\ q.me
                  THEN IF q.user = q.a THEN q.newA - q.befA ELSE q.newB - q.befB
                  ELSE 0]

\* COMMIT, then the response
SubmitCommit(q) ==
  /\ At(q, "submit", "commit")
  /\ tx' = NoTx
  /\ Finish(q, ResultPayload(q, db.ranked))
  /\ UNCHANGED <<db, clock>>

\* catch (error) { await db.run("ROLLBACK"); throw error; }
SubmitCatch(q) ==
  /\ At(q, "submit", "catch")
  /\ db' = RolledBack(tx, db)
  /\ tx' = NoTx
  /\ Finish(q, Reply(q, "threw"))
  /\ UNCHANGED clock

\* ---------------------------------------- POST /api/matches/:id/forfeit

\* SELECT * FROM matches; 404 without a match, 400 when it is complete.
ForfeitReadMatch(q) ==
  /\ At(q, "forfeit", "match")
  /\ IF db.status = "none" THEN Finish(q, Reply(q, "404"))
     ELSE IF db.status = "complete" THEN Finish(q, Reply(q, "400 complete"))
     ELSE Goto(q, [q EXCEPT !.pc = "forfeiter", !.mstatus = db.status])
  /\ UNCHANGED <<db, tx, clock>>

\* forfeiter = SELECT id, user_id, elo_before: 403 for a caller who is no
\* player; then the branch on the status read at the start.
ForfeitReadForfeiter(q) ==
  /\ At(q, "forfeit", "forfeiter")
  /\ IF ~db.rows[q.user].present THEN Finish(q, Reply(q, "403"))
     ELSE Goto(q, [q EXCEPT
            !.pc = IF q.mstatus = "waiting" THEN "leave" ELSE "opponent",
            !.a = q.user,
            !.befA = db.rows[q.user].elo_before])
  /\ UNCHANGED <<db, tx, clock>>

\* DELETE FROM match_players WHERE match_id = ? AND user_id = ?
ForfeitLeave(q) ==
  /\ At(q, "forfeit", "leave")
  /\ db' = [db EXCEPT !.rows[q.user] = NoRow]
  /\ Goto(q, [q EXCEPT !.pc = "remaining"])
  /\ UNCHANGED <<tx, clock>>

\* remaining = SELECT COUNT(*): the last player to leave deletes the match.
ForfeitReadRemaining(q) ==
  /\ At(q, "forfeit", "remaining")
  /\ IF Cardinality(PlayersOf(db)) = 0
     THEN Goto(q, [q EXCEPT !.pc = "deleteMatch"])
     ELSE Finish(q, Reply(q, "left"))
  /\ UNCHANGED <<db, tx, clock>>

\* DELETE FROM matches WHERE id = ?
ForfeitDeleteMatch(q) ==
  /\ At(q, "forfeit", "deleteMatch")
  /\ db' = DeleteMatch(db)
  /\ Finish(q, Reply(q, "left"))
  /\ UNCHANGED <<tx, clock>>

\* A forfeit that would rate an unranked match too.
ForfeitEloIgnoresRanked(who, first, ranked, eloUpdate, eloBefore) ==
  IF who = first THEN eloUpdate.newEloA ELSE eloUpdate.newEloB

\* forfeiterNewElo and opponentNewElo: newEloA goes to whichever of the two
\* is players[0], newEloB to whoever is not.
ForfeitElo(who, first, ranked, eloUpdate, eloBefore) ==
  IF ranked THEN (IF who = first THEN eloUpdate.newEloA ELSE eloUpdate.newEloB)
  ELSE eloBefore

\* The locals of an active forfeit: forfeiter a with score 0, opponent b with
\* score 1, no runtimes.
Forfeited(d, q, first, opponent) ==
  LET eloUpdate == computeEloUpdate(q.befA, d.rows[opponent].elo_before, 0, 2, Null, Null)
  IN  [q EXCEPT !.b = opponent,
                !.befB = d.rows[opponent].elo_before,
                !.newA = ForfeitElo(q.a, first, d.ranked, eloUpdate, q.befA),
                !.newB = ForfeitElo(opponent, first, d.ranked, eloUpdate,
                                    d.rows[opponent].elo_before)]

\* players = SELECT user_id, elo_before (no ORDER BY: any row may come
\* first); opponent = the first row that is not the caller's.
ForfeitReadPlayers(q) ==
  /\ At(q, "forfeit", "opponent")
  /\ LET me == q.user
         others == PlayersOf(db) \ {me}
     IN  IF Cardinality(PlayersOf(db)) < 2 \/ others = {}
         THEN Finish(q, Reply(q, "400 cannot"))
         ELSE \E first \in PlayersOf(db), opponent \in others :
                /\ first # me => opponent = first
                /\ Goto(q, [Forfeited(db, q, first, opponent) EXCEPT !.pc = "begin"])
  /\ UNCHANGED <<db, tx, clock>>

\* await db.run("BEGIN"), outside the try block: a throw ends the handler.
ForfeitBegin(q) ==
  /\ At(q, "forfeit", "begin")
  /\ IF BeginThrows(tx)
     THEN Finish(q, Reply(q, "begin failed")) /\ UNCHANGED tx
     ELSE tx' = Begun(db) /\ Goto(q, [q EXCEPT !.pc = "rowA"])
  /\ UNCHANGED <<db, clock>>

\* UPDATE match_players SET elo_after = ?, is_winner = 0, runtime_ms = NULL,
\* submitted_at = ? ... user_id = forfeiter
ForfeitWriteForfeiter(q) ==
  /\ q.op = "forfeit"
  /\ \E t \in 0..MaxClock :
       /\ Now(t)
       /\ clock' = t
       /\ LET row == [Outcome(db.rows[q.a], q.newA, 0) EXCEPT !.runtime_ms = Null,
                                                              !.submitted_at = t]
          IN  \/ /\ q.pc = "rowA"
                 /\ db' = UpdateRow(db, q.a, row)
                 /\ Goto(q, [q EXCEPT !.pc = "rowB"])
              \/ /\ q.pc = "rowA"
                 /\ Goto(q, [q EXCEPT !.pc = "catch"])
                 /\ UNCHANGED db
  /\ UNCHANGED tx

\* UPDATE match_players SET elo_after = ?, is_winner = 1 ... user_id = opponent
ForfeitWriteOpponent(q) ==
  /\ q.op = "forfeit"
  /\ TxWrite(q, "rowB", IF db.ranked THEN "eloA" ELSE "status",
                 UpdateRow(db, q.b, Outcome(db.rows[q.b], q.newB, 1)))

\* if (ranked) UPDATE users SET elo = forfeiterNewElo
ForfeitWriteEloForfeiter(q) ==
  /\ q.op = "forfeit"
  /\ TxWrite(q, "eloA", "eloB", UpdateElo(db, q.a, q.newA))

\* if (ranked) UPDATE users SET elo = opponentNewElo
ForfeitWriteEloOpponent(q) ==
  /\ q.op = "forfeit"
  /\ TxWrite(q, "eloB", "status", UpdateElo(db, q.b, q.newB))

\* UPDATE matches SET status = 'complete'
ForfeitWriteStatus(q) ==
  /\ q.op = "forfeit"
  /\ TxWrite(q, "status", "commit", UpdateStatus(db, "complete"))

\* COMMIT, then res.json({ status: "forfeited", winnerId: opponent.user_id })
ForfeitCommit(q) ==
  /\ At(q, "forfeit", "commit")
  /\ tx' = NoTx
  /\ Finish(q, [Reply(q, "forfeited") EXCEPT !.winnerId = q.b])
  /\ UNCHANGED <<db, clock>>

\* catch (error) { await db.run("ROLLBACK"); throw error; }
ForfeitCatch(q) ==
  /\ At(q, "forfeit", "catch")
  /\ db' = RolledBack(tx, db)
  /\ tx' = NoTx
  /\ Finish(q, Reply(q, "threw"))
  /\ UNCHANGED clock

\* ---------------------------------------------------------- specification

\* The requests a client can send.
Next ==
  \E u \in Users :
    \/ \E op \in {"join", "submit", "forfeit"} : Start(op, u)
    \/ JoinReadMatch(reqs[u])
    \/ JoinReadExisting(reqs[u])
    \/ JoinReadCount(reqs[u])
    \/ JoinReadUser(reqs[u])
    \/ JoinInsert(reqs[u])
    \/ JoinActivate(reqs[u])
    \/ SubmitReadMatch(reqs[u])
    \/ SubmitReadPlayer(reqs[u])
    \/ SubmitValidate(reqs[u])
    \/ SubmitRecord(reqs[u])
    \/ SubmitBegin(reqs[u])
    \/ SubmitReadMatchNow(reqs[u])
    \/ SubmitCompleteRollback(reqs[u])
    \/ SubmitReadPlayersAfter(reqs[u])
    \/ SubmitReadPlayers(reqs[u])
    \/ SubmitWriteRowA(reqs[u])
    \/ SubmitWriteRowB(reqs[u])
    \/ SubmitWriteEloA(reqs[u])
    \/ SubmitWriteEloB(reqs[u])
    \/ SubmitWriteStatus(reqs[u])
    \/ SubmitCommit(reqs[u])
    \/ SubmitCatch(reqs[u])
    \/ ForfeitReadMatch(reqs[u])
    \/ ForfeitReadForfeiter(reqs[u])
    \/ ForfeitLeave(reqs[u])
    \/ ForfeitReadRemaining(reqs[u])
    \/ ForfeitDeleteMatch(reqs[u])
    \/ ForfeitReadPlayers(reqs[u])
    \/ ForfeitBegin(reqs[u])
    \/ ForfeitWriteForfeiter(reqs[u])
    \/ ForfeitWriteOpponent(reqs[u])
    \/ ForfeitWriteEloForfeiter(reqs[u])
    \/ ForfeitWriteEloOpponent(reqs[u])
    \/ ForfeitWriteStatus(reqs[u])
    \/ ForfeitCommit(reqs[u])
    \/ ForfeitCatch(reqs[u])

Spec == Init /\ [][Next]_vars

\* ------------------------------------------- finalization over many ratings

\* Ratings two players can have when their match is created, and the pairs of
\* them whose difference has a tabulated expected score.
EloRatings == {1200, 1216, 1232, 1248, 1300, 1400}
EloPairs == {p \in EloRatings \X EloRatings : p[2] - p[1] \in EloDiffs}

\* Runtimes in ms recorded by earlier submits.
EloRuntimes == {32, 33, 50, 200}

\* A ranked active match of u1 and u2 in which both have submitted.
RecordedMatch(p, r, t) ==
  LET who == [u \in {"u1", "u2"} |-> IF u = "u1" THEN 1 ELSE 2]
  IN  [status |-> "active", ranked |-> TRUE,
       rows |-> [u \in Users |->
                   IF u \in {"u1", "u2"}
                   THEN [NewRow(p[who[u]]) EXCEPT !.runtime_ms = r[who[u]],
                                                  !.submitted_at = t[who[u]]]
                   ELSE NoRow],
       elo |-> [u \in Users |-> IF u \in {"u1", "u2"} THEN p[who[u]] ELSE 1200]]

\* The one request in flight: a submit that has just recorded its runtime (so
\* its timestamp is the latest) and stands before its BEGIN, or a forfeit that
\* has just arrived.
RatedInit ==
  \E p \in EloPairs, r \in EloRuntimes \X EloRuntimes,
     t \in (0..MaxClock) \X (0..MaxClock), u \in {"u1", "u2"},
     op \in {"submit", "forfeit"} :
    LET mine == IF u = "u1" THEN t[1] ELSE t[2]
        latest == IF t[1] > t[2] THEN t[1] ELSE t[2]
    IN  /\ op = "submit" => mine = latest
        /\ db = RecordedMatch(p, r, t)
        /\ tx = NoTx
        /\ reqs = [w \in Users |->
                     IF w # u THEN Idle
                     ELSE [Idle EXCEPT !.op = op, !.user = u,
                                       !.pc = IF op = "submit" THEN "begin" ELSE "match",
                                       !.mstatus = IF op = "submit" THEN "active" ELSE "none"]]
        /\ last = NoResp
        /\ clock = latest
        /\ started = 1
        /\ exec = NoExec
        /\ judge = NoJudge

\* The steps of that request.
RatedNext ==
  \E u \in Users :
    \/ SubmitBegin(reqs[u])
    \/ SubmitReadMatchNow(reqs[u])
    \/ SubmitReadPlayers(reqs[u])
    \/ SubmitWriteRowA(reqs[u])
    \/ SubmitWriteRowB(reqs[u])
    \/ SubmitWriteEloA(reqs[u])
    \/ SubmitWriteEloB(reqs[u])
    \/ SubmitWriteStatus(reqs[u])
    \/ SubmitCommit(reqs[u])
    \/ SubmitCatch(reqs[u])
    \/ ForfeitReadMatch(reqs[u])
    \/ ForfeitReadForfeiter(reqs[u])
    \/ ForfeitReadPlayers(reqs[u])
    \/ ForfeitBegin(reqs[u])
    \/ ForfeitWriteForfeiter(reqs[u])
    \/ ForfeitWriteOpponent(reqs[u])
    \/ ForfeitWriteEloForfeiter(reqs[u])
    \/ ForfeitWriteEloOpponent(reqs[u])
    \/ ForfeitWriteStatus(reqs[u])
    \/ ForfeitCommit(reqs[u])
    \/ ForfeitCatch(reqs[u])

EloSpec == RatedInit /\ [][RatedNext]_vars

\* --------------------------------------------------- the execution router

\* Chunks a spawned process writes to one of its streams.
MaxChunks == 1

\* pistonLang after langMap: the languages of localRunnersMap and one that
\* only the remote service runs.
Languages == {"javascript", "python", "java", "c", "c++", "rust"}
localRunnersMap == {"javascript", "python", "java", "c", "c++"}
\* The local runners that compile before they run.
CompiledLanguages == {"java", "c", "c++"}

\* What runCodeOnce tests of its arguments: the language, whether stdin is
\* not blank, whether meta has a methodName, whether the code declares a
\* class Solution, whether it has its own __main__ guard, and whether a C
\* function takes an int pointer or firstParamIsArray is false.  A test
\* the router does not make for the language is left FALSE.
ExecInputs ==
  {in \in [language : Languages, hasStdin : BOOLEAN, methodName : BOOLEAN,
           classSolution : BOOLEAN, ownMain : BOOLEAN, cSignature : BOOLEAN] :
     /\ in.hasStdin => in.language \in {"python", "javascript", "c"}
     /\ in.methodName => in.language \in {"javascript", "c++", "c"}
     /\ in.classSolution => in.language \in {"python", "c++"}
     /\ in.ownMain => in.language = "python"
     /\ in.cSignature => in.language = "c"}

\* The two runWithStdin calls of a local runner.
ProcIds == {"compile", "run"}
\* Exit codes of a process that exits by itself.
ExitCodes == {0, 1}
\* The code of the close event when spawn fails (a negative errno).
ENOENT == -2

\* No process.  nout and nerr count the chunks the process has written,
\* stdout and stderr are what the data and error handlers have accumulated,
\* timer is the pending setTimeout, resolved tells that the promise of
\* runWithStdin has resolved.  A code of Null is the close event of a
\* process ended by a signal.
NoProc ==
  [state |-> "none", code |-> 0, nout |-> 0, nerr |-> 0,
   stdout |-> <<>>, stderr |-> <<>>, timer |-> FALSE, resolved |-> FALSE]

\* The occurrences of the chunk c in a text.
Chunks(text, c) == Len(SelectSeq(text, LAMBDA x : x = c))

\* A result without output, and no response.
NoResult == [stdout |-> <<>>, stderr |-> <<>>]
NoRunResponse == [status |-> 0, stdout |-> <<>>, stderr |-> <<>>]

\* The execution call on arrival of POST /api/run with language and code.
\* route is the path the router chose first, tried the paths called so
\* far, dir the existence of the working directory, rm a pending fs.rm,
\* pending the result a runner returns once its rm has settled.
NewExec(in) ==
  [pc |-> "start", in |-> in, route |-> "none", tried |-> <<>>,
   dir |-> FALSE, rm |-> FALSE,
   proc |-> [p \in ProcIds |-> NoProc],
   pending |-> NoResult, resp |-> NoRunResponse]

\* runLocalJavaScript: what the script printed, with the message of an
\* exception in stderr.
JsResults ==
  {[stdout |-> o, stderr |-> e] :
     o \in {<<>>, <<"js out">>}, e \in {<<>>, <<"js exception">>}}

\* tryPiston: run.stdout and run.stderr of the remote service.
PistonResults ==
  {[stdout |-> o, stderr |-> e] :
     o \in {<<>>, <<"remote out">>}, e \in {<<>>, <<"remote err">>}}

useLocalPythonFirst(in) ==
  in.language = "python" /\ in.hasStdin /\ in.classSolution /\ ~in.ownMain
useLocalJsFirst(in) == in.language = "javascript" /\ in.hasStdin /\ in.methodName
useLocalCppFirst(in) == in.language = "c++" /\ in.methodName /\ in.classSolution
useLocalCFirst(in) ==
  in.language = "c" /\ in.hasStdin /\ in.methodName /\ in.cSignature

\* runCodeOnce returns r (status 200) or throws (status 502) and the
\* handler of POST /api/run answers.
Responded(e, status, r) ==
  [e EXCEPT !.pc = "done",
            !.resp = [status |-> status, stdout |-> r.stdout, stderr |-> r.stderr]]

\* The local runner of the language is called: the in-process runner
\* returns at once, the others start with the working directory.
LocalStarted(e) ==
  LET e2 == [e EXCEPT !.tried = Append(e.tried, "local")]
  IN  IF e.in.language = "javascript"
      THEN {Responded(e2, 200, r) : r \in JsResults}
      ELSE {[e2 EXCEPT !.pc = "mkdir"]}

\* The catch of runCodeOnce: the local runner if there is one, else the
\* error of the remote call is thrown on.
Caught(e) ==
  IF e.in.language \in localRunnersMap
  THEN LocalStarted(e)
  ELSE {Responded(e, 502, NoResult)}

\* runCodeOnce up to its first await.
ExecRoute ==
  /\ exec.pc = "start"
  /\ IF \/ useLocalPythonFirst(exec.in) \/ useLocalJsFirst(exec.in)
        \/ useLocalCppFirst(exec.in) \/ useLocalCFirst(exec.in)
     THEN exec' \in LocalStarted([exec EXCEPT !.route = "local"])
     ELSE exec' = [exec EXCEPT !.route = "remote", !.tried = <<"remote">>,
                               !.pc = "fetch"]
  /\ UNCHANGED <<db, tx, reqs, last, clock, started, judge>>

\* await fetch: a response that is ok, one that is not, or a rejection.
PistonFetch ==
  /\ exec.pc = "fetch"
  /\ \/ exec' = [exec EXCEPT !.pc = "json"]
     \/ exec' = [exec EXCEPT !.pc = "text"]
     \/ exec' \in Caught(exec)
  /\ UNCHANGED <<db, tx, reqs, last, clock, started, judge>>

\* await pistonRes.text() of a response that is not ok, then the throw.
PistonText ==
  /\ exec.pc = "text"
  /\ exec' \in Caught(exec)
  /\ UNCHANGED <<db, tx, reqs, last, clock, started, judge>>

\* await pistonRes.json(): the result, or a rejection.
PistonJson ==
  /\ exec.pc = "json"
  /\ \/ \E r \in PistonResults : exec' = Responded(exec, 200, r)
     \/ exec' \in Caught(exec)
  /\ UNCHANGED <<db, tx, reqs, last, clock, started, judge>>

\* spawn: the process runs, or the spawn fails and the error handler
\* appends the message; the timer is set either way.
Spawned ==
  {[NoProc EXCEPT !.state = "running", !.timer = TRUE],
   [NoProc EXCEPT !.state = "failed", !.code = ENOENT,
                  !.stderr = <<"spawn ENOENT">>, !.timer = TRUE]}

\* A runner that would resolve on a file-system error without fs.rm.
FsFailedKeepsDir(e, msg, rm) ==
  Responded(e, 200, [stdout |-> <<>>, stderr |-> <<msg>>])

\* The runner gives up with the message of a file-system error: runLocalPython
\* resolves at once (rm tells whether it has called fs.rm), the other
\* runners call fs.rm in their catch and return after it.
FsFailed(e, msg, rm) ==
  LET r == [stdout |-> <<>>, stderr |-> <<msg>>]
  IN  IF e.in.language = "python"
      THEN Responded([e EXCEPT !.rm = rm], 200, r)
      ELSE [e EXCEPT !.rm = TRUE, !.pending = r, !.pc = "rm"]

\* mkdir of the working directory.
Mkdir ==
  /\ exec.pc = "mkdir"
  /\ \/ exec' = [exec EXCEPT !.dir = TRUE, !.pc = "write"]
     \/ exec' = FsFailed(exec, "mkdir error", FALSE)
  /\ UNCHANGED <<db, tx, reqs, last, clock, started, judge>>

\* writeFile of the source, then the first runWithStdin: the compiler, or
\* the interpreter of runLocalPython.
WriteFile ==
  /\ exec.pc = "write"
  /\ \/ LET p == IF exec.in.language \in CompiledLanguages THEN "compile" ELSE "run"
        IN  \E st \in Spawned :
              exec' = [exec EXCEPT !.proc[p] = st, !.pc = p]
     \/ exec' = FsFailed(exec, "write error", TRUE)
  /\ UNCHANGED <<db, tx, reqs, last, clock, started, judge>>

\* The process p writes a chunk to its stdout, or to its stderr.
ProcWriteOut(p) ==
  /\ exec.pc # "none"
  /\ exec.proc[p].state = "running"
  /\ exec.proc[p].nout < MaxChunks
  /\ exec' = [exec EXCEPT !.proc[p].nout = @ + 1]
  /\ UNCHANGED <<db, tx, reqs, last, clock, started, judge>>

ProcWriteErr(p) ==
  /\ exec.pc # "none"
  /\ exec.proc[p].state = "running"
  /\ exec.proc[p].nerr < MaxChunks
  /\ exec' = [exec EXCEPT !.proc[p].nerr = @ + 1]
  /\ UNCHANGED <<db, tx, reqs, last, clock, started, judge>>

\* The process p exits by itself.
ProcExit(p) ==
  /\ exec.pc # "none"
  /\ exec.proc[p].state = "running"
  /\ \E c \in ExitCodes :
       exec' = [exec EXCEPT !.proc[p].state = "exited", !.proc[p].code = c]
  /\ UNCHANGED <<db, tx, reqs, last, clock, started, judge>>

\* A timeout that would send no signal.
TimerFireSparesProcess(p) ==
  /\ exec.pc # "none"
  /\ exec.proc[p].timer
  /\ exec' = [exec EXCEPT !.proc[p].timer = FALSE]
  /\ UNCHANGED <<db, tx, reqs, last, clock, started, judge>>

\* The timeout of runWithStdin: SIGKILL, which ends a running process and
\* does nothing to one that has ended.
TimerFire(p) ==
  /\ exec.pc # "none"
  /\ exec.proc[p].timer
  /\ exec' = IF exec.proc[p].state = "running"
             THEN [exec EXCEPT !.proc[p].timer = FALSE,
                               !.proc[p].state = "killed", !.proc[p].code = Null]
             ELSE [exec EXCEPT !.proc[p].timer = FALSE]
  /\ UNCHANGED <<db, tx, reqs, last, clock, started, judge>>

\* The data handlers: a written chunk is appended.
DataOut(p) ==
  /\ exec.pc # "none"
  /\ Len(exec.proc[p].stdout) < exec.proc[p].nout
  /\ exec' = [exec EXCEPT !.proc[p].stdout = Append(@, "out")]
  /\ UNCHANGED <<db, tx, reqs, last, clock, started, judge>>

DataErr(p) ==
  /\ exec.pc # "none"
  /\ Chunks(exec.proc[p].stderr, "err") < exec.proc[p].nerr
  /\ exec' = [exec EXCEPT !.proc[p].stderr = Append(@, "err")]
  /\ UNCHANGED <<db, tx, reqs, last, clock, started, judge>>

\* The close event of p can be emitted: the process has ended and its
\* streams are drained.
Closable(pr) ==
  /\ pr.state \in {"exited", "killed", "failed"}
  /\ Len(pr.stdout) = pr.nout
  /\ Chunks(pr.stderr, "err") = pr.nerr

\* The compiler closes: runWithStdin resolves and the runner either gives
\* up, removing the directory, or runs the program.
CloseCompile ==
  /\ exec.pc = "compile"
  /\ Closable(exec.proc["compile"])
  /\ LET compile == exec.proc["compile"]
         e == [exec EXCEPT !.proc["compile"].resolved = TRUE]
     IN  IF compile.code # 0 /\ compile.code # Null
         THEN exec' = [e EXCEPT
                !.rm = TRUE,
                !.pending = [stdout |-> <<>>,
                             stderr |-> IF compile.stderr # <<>> THEN compile.stderr
                                        ELSE <<"Compilation failed">>],
                !.pc = "rm"]
         ELSE \E st \in Spawned : exec' = [e EXCEPT !.proc["run"] = st, !.pc = "run"]
  /\ UNCHANGED <<db, tx, reqs, last, clock, started, judge>>

\* The program closes: runWithStdin resolves, the runner calls fs.rm;
\* runLocalPython resolves at once, the others after the rm.
CloseRun ==
  /\ exec.pc = "run"
  /\ Closable(exec.proc["run"])
  /\ LET r == [stdout |-> exec.proc["run"].stdout, stderr |-> exec.proc["run"].stderr]
         e == [exec EXCEPT !.proc["run"].resolved = TRUE, !.rm = TRUE]
     IN  exec' = IF exec.in.language = "python"
                 THEN Responded(e, 200, r)
                 ELSE [e EXCEPT !.pending = r, !.pc = "rm"]
  /\ UNCHANGED <<db, tx, reqs, last, clock, started, judge>>

\* fs.rm settles: the directory is gone (a rejection, as for a directory
\* that was never made, is swallowed), and a runner that waited returns.
RmDone ==
  /\ exec.pc # "none"
  /\ exec.rm
  /\ LET e == [exec EXCEPT !.rm = FALSE, !.dir = FALSE]
     IN  exec' = IF exec.pc = "rm" THEN Responded(e, 200, exec.pending) ELSE e
  /\ UNCHANGED <<db, tx, reqs, last, clock, started, judge>>

\* One execution call, with no match request in flight.
ExecInit ==
  /\ exec \in {NewExec(in) : in \in ExecInputs}
  /\ judge = NoJudge
  /\ db = NoSnap
  /\ tx = NoTx
  /\ reqs = [u \in Users |-> Idle]
  /\ last = NoResp
  /\ clock = 0
  /\ started = 0

ExecNext ==
  \/ ExecRoute
  \/ PistonFetch
  \/ PistonText
  \/ PistonJson
  \/ Mkdir
  \/ WriteFile
  \/ \E p \in ProcIds : ProcWriteOut(p)
  \/ \E p \in ProcIds : ProcWriteErr(p)
  \/ \E p \in ProcIds : ProcExit(p)
  \/ \E p \in ProcIds : TimerFire(p)
  \/ \E p \in ProcIds : DataOut(p)
  \/ \E p \in ProcIds : DataErr(p)
  \/ CloseCompile
  \/ CloseRun
  \/ RmDone

ExecSpec == ExecInit /\ [][ExecNext]_vars

\* The event loop runs every callback that is due: file-system calls
\* settle, timers fire, written data is delivered and the close event of an
\* ended process is emitted.  A process need not exit by itself, and the
\* remote service need not answer.
ExecFairness ==
  /\ WF_vars(Mkdir) /\ WF_vars(WriteFile)
  /\ WF_vars(CloseCompile) /\ WF_vars(CloseRun) /\ WF_vars(RmDone)
  /\ \A p \in ProcIds :
       WF_vars(TimerFire(p)) /\ WF_vars(DataOut(p)) /\ WF_vars(DataErr(p))

FairExecSpec == ExecSpec /\ ExecFairness

\* ------------------------------------------------------ strings and JSON

\* A string is the sequence of its characters.  The characters of the
\* model: decimal digits, the brackets and the comma of a JSON array, the
\* space and the line feed, and a letter that no JSON text contains.
DigitChars == {"0", "1", "2", "3", "4"}
IsSpace(c) == c \in {" ", "\n"}

\* /^\d+$/
IsDigits(s) == s # <<>> /\ \A i \in 1..Len(s) : s[i] \in DigitChars

DigitValue(c) ==
  CASE c = "0" -> 0 [] c = "1" -> 1 [] c = "2" -> 2 [] c = "3" -> 3 [] c = "4" -> 4

\* Number(s) of a string of digits.
RECURSIVE Number(_)
Number(s) ==
  IF s = <<>> THEN 0
  ELSE 10 * Number(SubSeq(s, 1, Len(s) - 1)) + DigitValue(s[Len(s)])

\* String.prototype.trim
RECURSIVE trimStart(_)
trimStart(s) == IF s # <<>> /\ IsSpace(Head(s)) THEN trimStart(Tail(s)) ELSE s

RECURSIVE trimEnd(_)
trimEnd(s) ==
  IF s # <<>> /\ IsSpace(s[Len(s)]) THEN trimEnd(SubSeq(s, 1, Len(s) - 1)) ELSE s

trim(s) == trimEnd(trimStart(s))

\* s.split(/\r?\n/)
RECURSIVE split(_)
split(s) ==
  IF \E i \in 1..Len(s) : s[i] = "\n"
  THEN LET i == CHOOSE i \in 1..Len(s) :
                  s[i] = "\n" /\ \A j \in 1..(i - 1) : s[j] # "\n"
       IN  <<SubSeq(s, 1, i - 1)>> \o split(SubSeq(s, i + 1, Len(s)))
  ELSE <<s>>

\* lines.join("\n")
RECURSIVE join(_)
join(lines) ==
  IF lines = <<>> THEN <<>>
  ELSE IF Len(lines) = 1 THEN lines[1]
  ELSE lines[1] \o <<"\n">> \o join(Tail(lines))

\* s.trim().split(/\r?\n/).map((l) => l.trim()).filter(Boolean)
TrimmedLines(s) ==
  LET parts == split(trim(s))
  IN  SelectSeq([i \in 1..Len(parts) |-> trim(parts[i])], LAMBDA l : l # <<>>)

\* lines.slice(from, to)
slice(lines, from, to) == SubSeq(lines, from + 1, to)

\* The tokens of a JSON text: a run of digits is one token, every other
\* character that is not white space is a token of its own.
RECURSIVE DigitRun(_)
DigitRun(s) == IF s # <<>> /\ Head(s) \in DigitChars THEN 1 + DigitRun(Tail(s)) ELSE 0

RECURSIVE JsonTokens(_)
JsonTokens(s) ==
  IF s = <<>> THEN <<>>
  ELSE IF IsSpace(Head(s)) THEN JsonTokens(Tail(s))
  ELSE LET n == IF Head(s) \in DigitChars THEN DigitRun(s) ELSE 1
       IN  <<SubSeq(s, 1, n)>> \o JsonTokens(SubSeq(s, n + 1, Len(s)))

\* A token is a bracket, a comma, a number (no leading zero) or no token of
\* JSON.
TokenKind(t) ==
  IF t \in {<<"[">>, <<"]">>, <<",">>} THEN t[1]
  ELSE IF IsDigits(t) /\ (Len(t) = 1 \/ t[1] # "0") THEN "int"
  ELSE "bad"

\* The grammar of JSON over these tokens: a value is a number or an array
\* of values.  st is what may come next: a value, a value or the end of an
\* array just opened, or what follows a value.
RECURSIVE JsonValid(_, _, _, _)
JsonValid(toks, i, depth, st) ==
  IF i > Len(toks) THEN st = "after" /\ depth = 0
  ELSE LET k == TokenKind(toks[i])
       IN  IF st = "after"
           THEN /\ depth > 0
                /\ \/ k = "," /\ JsonValid(toks, i + 1, depth, "value")
                   \/ k = "]" /\ JsonValid(toks, i + 1, depth - 1, "after")
           ELSE \/ k = "int" /\ JsonValid(toks, i + 1, depth, "after")
                \/ k = "[" /\ JsonValid(toks, i + 1, depth + 1, "first")
                \/ k = "]" /\ st = "first" /\ JsonValid(toks, i + 1, depth - 1, "after")

\* JSON.parse: the value as its tokens, or ok FALSE where it throws.
JSONparse(s) ==
  LET toks == JsonTokens(s)
  IN  IF JsonValid(toks, 1, 0, "value") THEN [ok |-> TRUE, toks |-> toks]
      ELSE [ok |-> FALSE, toks |-> <<>>]

\* JSON.stringify of a parsed value: its tokens without white space.
RECURSIVE JSONstringify(_)
JSONstringify(toks) ==
  IF toks = <<>> THEN <<>> ELSE Head(toks) \o JSONstringify(Tail(toks))

\* Array.isArray
isArray(v) == v.ok /\ v.toks[1] = <<"[">>

\* The elements of a parsed array, each as its tokens.
RECURSIVE ElementsFrom(_, _, _, _)
ElementsFrom(toks, i, depth, cur) ==
  IF i >= Len(toks) THEN (IF cur = <<>> THEN <<>> ELSE <<cur>>)
  ELSE IF toks[i] = <<",">> /\ depth = 0
       THEN <<cur>> \o ElementsFrom(toks, i + 1, 0, <<>>)
       ELSE ElementsFrom(toks, i + 1,
                         depth + (IF toks[i] = <<"[">> THEN 1
                                  ELSE IF toks[i] = <<"]">> THEN -1 ELSE 0),
                         Append(cur, toks[i]))

Elements(v) == ElementsFrom(v.toks, 2, 0, <<>>)

\* x === val for an element x of a parsed array: true only for two equal
\* numbers (an array is never identical to another value, and val is a
\* string when its line did not parse).
StrictEquals(x, val) == val.ok /\ Len(val.toks) = 1 /\ x = val.toks

\* ----------------------------------------------------- the output matcher

normalizeOutput(s) ==
  LET t == trim(s)
      parsed == JSONparse(t)
  IN  IF parsed.ok THEN JSONstringify(parsed.toks) ELSE t

\* A matcher that would compare parsed values only and reject text that is
\* not JSON.
outputMatchesParsedOnly(actual, expected) ==
  /\ JSONparse(trim(actual)).ok
  /\ JSONparse(trim(expected)).ok
  /\ JSONstringify(JSONparse(trim(actual)).toks) = JSONstringify(JSONparse(trim(expected)).toks)

\* A matcher that would accept an actual number up to the array's length.
outputMatchesUpToLength(actual, expected) ==
  \/ normalizeOutput(actual) = normalizeOutput(expected)
  \/ LET actualStr == trim(actual)
         expectedParsed == JSONparse(trim(expected))
     IN  /\ isArray(expectedParsed) /\ IsDigits(actualStr)
         /\ Number(actualStr) <= Len(Elements(expectedParsed))

outputMatches(actual, expected) ==
  IF normalizeOutput(actual) = normalizeOutput(expected) THEN TRUE
  ELSE LET actualStr == trim(actual)
           expectedParsed == JSONparse(trim(expected))
       IN  IF isArray(expectedParsed) /\ IsDigits(actualStr)
           THEN Number(actualStr) = Len(Elements(expectedParsed))
           ELSE FALSE

passesReturnLengthHeuristic(actual, expected, stdin) ==
  LET actualStr == trim(actual)
      lines == TrimmedLines(stdin)
  IN  IF ~IsDigits(actualStr) THEN FALSE
      ELSE IF Len(lines) < 2 THEN FALSE
      ELSE LET arr == JSONparse(lines[1])
           IN  IF ~isArray(arr) THEN FALSE
               ELSE LET val == JSONparse(lines[Len(lines)])
                        xs == Elements(arr)
                        k == Cardinality({i \in 1..Len(xs) : ~StrictEquals(xs[i], val)})
                    IN  Number(actualStr) = k

\* Longest string of the exhaustive inputs of the matcher.
MaxLen == 2

\* All strings up to a length over a set of characters.
RECURSIVE StringsUpTo(_, _)
StringsUpTo(chars, n) ==
  IF n = 0 THEN {<<>>}
  ELSE LET shorter == StringsUpTo(chars, n - 1)
       IN  shorter \cup {Append(s, c) : s \in shorter, c \in chars}

\* Outputs and expected values: every short string, and longer ones as
\* programs print them and example blocks state them.
MatcherTexts ==
  StringsUpTo({"0", "1", "[", "]", ",", " "}, MaxLen)
  \cup {<<"3">>, <<"0", "3">>, <<" ", "3", "\n">>, <<"a">>, <<"a", " ">>,
        <<"[", "0", ",", "1", ",", "2", "]">>,
        <<"[", "0", ",", " ", "1", ",", " ", "2", "]">>,
        <<"[", "0", ",", "1", ",", "2", ",", "4", "]">>,
        <<"[", "[", "0", "]", ",", "[", "1", ",", "2", "]", ",", "3", "]">>,
        <<"[", "1", "]">>, <<"[", "1", "0", "]">>, <<"[", "0", "1", "]">>,
        <<"[", "0", ",", "1", ",", "2">>}

\* One call of outputMatches.
MatchInit ==
  /\ judge \in {[pc |-> "call", actual |-> a, expected |-> e, ret |-> FALSE] :
                  a \in MatcherTexts, e \in MatcherTexts}
  /\ exec = NoExec
  /\ db = NoSnap
  /\ tx = NoTx
  /\ reqs = [u \in Users |-> Idle]
  /\ last = NoResp
  /\ clock = 0
  /\ started = 0

outputMatchesReturns ==
  /\ judge.pc = "call"
  /\ judge' = [judge EXCEPT !.pc = "returned",
                            !.ret = outputMatches(judge.actual, judge.expected)]
  /\ UNCHANGED <<db, tx, reqs, last, clock, started, exec>>

MatchNext == outputMatchesReturns

MatchSpec == MatchInit /\ [][MatchNext]_vars

\* --------------------------------------------------- the test-case deriver

\* Raw lines of an example block in the exhaustive inputs of the deriver.
MaxLines == 6
\* Largest parameter count of a signature.
MaxParams == 4

\* A derived test case.
TestCase(stdin, expected) == [stdin |-> stdin, expected |-> expected]

\* for (let i = 0; i + blockSize <= lines.length; i += blockSize): the
\* cases of the complete blocks of numParams + 1 lines.
BlockCases(lines, numParams) ==
  LET blockSize == numParams + 1
  IN  [c \in 1..(Len(lines) \div blockSize) |->
         LET i == (c - 1) * blockSize
         IN  TestCase(join(slice(lines, i, i + numParams)), lines[i + numParams + 1])]

parseTestCases(exampleTestcases, numParamsFromMeta) ==
  LET lines == TrimmedLines(exampleTestcases)
  IN  IF exampleTestcases = <<>> \/ Len(lines) = 0 THEN <<>>
      ELSE IF numParamsFromMeta = Null \/ numParamsFromMeta < 0
      THEN IF Len(lines) >= 2
           THEN <<TestCase(join(slice(lines, 0, Len(lines) - 1)), lines[Len(lines)])>>
           ELSE <<TestCase(lines[1], <<>>)>>
      ELSE
        LET numParams ==
              IF numParamsFromMeta = 1 /\ Len(lines) >= 3 /\ Len(lines) % 3 = 0
              THEN 2 ELSE numParamsFromMeta
            blocks == BlockCases(lines, numParams)
            cases ==
              IF Len(lines) = numParams * 2
              THEN <<TestCase(join(slice(lines, 0, numParams)), <<>>),
                     TestCase(join(slice(lines, numParams, numParams * 2)), <<>>)>>
              ELSE IF Len(blocks) = 0 /\ Len(lines) >= numParams
              THEN <<TestCase(join(slice(lines, 0, numParams)), <<>>)>>
              ELSE blocks
            retries ==
              {tryParams \in 2..(numParams - 1) :
                 /\ Len(lines) % (tryParams + 1) = 0
                 /\ Len(BlockCases(lines, tryParams)) >= 2}
        IN  IF Len(cases) = 1 /\ numParams >= 3 /\ Len(lines) >= 4 /\ retries # {}
            THEN BlockCases(lines, CHOOSE t \in retries : \A r \in retries : r <= t)
            ELSE cases

\* The raw lines of example blocks: a line, a line to trim, a blank line.
RawLines == {<<"1">>, <<" ", "2", " ">>, <<" ">>}

\* All sequences up to a length over a set.
RECURSIVE SeqsUpTo(_, _)
SeqsUpTo(S, n) ==
  IF n = 0 THEN {<<>>}
  ELSE LET shorter == SeqsUpTo(S, n - 1)
       IN  shorter \cup {Append(s, x) : s \in shorter, x \in S}

\* One call of parseTestCases, with numParams of parseMetaData or none.
ParseInit ==
  /\ judge \in {[pc |-> "call", exampleTestcases |-> join(raw), numParams |-> n,
                 ret |-> <<>>] :
                  raw \in SeqsUpTo(RawLines, MaxLines), n \in {Null} \cup 0..MaxParams}
  /\ exec = NoExec
  /\ db = NoSnap
  /\ tx = NoTx
  /\ reqs = [u \in Users |-> Idle]
  /\ last = NoResp
  /\ clock = 0
  /\ started = 0

parseTestCasesReturns ==
  /\ judge.pc = "call"
  /\ judge' = [judge EXCEPT !.pc = "returned",
                            !.ret = parseTestCases(judge.exampleTestcases, judge.numParams)]
  /\ UNCHANGED <<db, tx, reqs, last, clock, started, exec>>

ParseNext == parseTestCasesReturns

ParseSpec == ParseInit /\ [][ParseNext]_vars

\* ------------------------------------------- test runs and submit validation

\* Lines of the example block of a problem in the inputs of a test run.
MaxExampleLines == 4
\* Output markers in the description of a problem.
MaxMarkers == 2

\* The description of a problem, as far as parseExpectedFromContent reads it:
\* the sequence of its "Output: ..." markers, each in a quoting style (a
\* quoted value, first pattern; a bare number, fourth pattern).
MarkerStyles == {"quoted", "digits"}

Marker(style, val) == [style |-> style, val |-> val]

\* The patterns run over combined = normalized + "\n" + stripTags, two
\* renderings of the same description that both keep every marker, so every
\* marker is matched once in each; the first pattern with a match returns.
parseExpectedFromContent(content) ==
  LET Matches(style) ==
        LET ms == SelectSeq(content, LAMBDA m : m.style = style /\ trim(m.val) # <<>>)
            normalized == [i \in 1..Len(ms) |-> trim(ms[i].val)]
            stripTags == normalized
        IN  normalized \o stripTags
  IN  IF content = <<>> THEN <<>>
      ELSE IF Len(Matches("quoted")) > 0 THEN Matches("quoted")
      ELSE Matches("digits")

\* testCases.map((tc, i) => ({ ...tc, expected: expectedFromContent[i] ?? tc.expected }))
\* when the description gives at least as many values as there are cases.
DeriveTestCases(exampleTestcases, numParams, content) ==
  LET testCases == parseTestCases(exampleTestcases, numParams)
      expectedFromContent == parseExpectedFromContent(content)
  IN  IF content # <<>> /\ Len(testCases) > 0
         /\ Len(expectedFromContent) >= Len(testCases)
      THEN [i \in 1..Len(testCases) |->
              TestCase(testCases[i].stdin, expectedFromContent[i])]
      ELSE testCases

\* The example lines, descriptions, stored cases and outputs of the inputs.
ExampleLines == {<<"[", "1", ",", "2", "]">>, <<"1">>}

Contents ==
  SeqsUpTo({Marker("quoted", <<"2">>), Marker("digits", <<"1">>)}, MaxMarkers)

BuiltinCases == {<<>>, <<TestCase(<<"1">>, <<"1">>)>>}

RunStdouts == {<<>>, <<"1", "\n">>}

\* A request of POST /api/run-tests or a call of runAllTestsForSubmit: the
\* slug is a built-in one or not, the built-in problem has stored test cases
\* or an example block and a description, the client sends an example block
\* and metadata (numParams of parseMetaData, Null without metadata).
TestInputs ==
  {[handler |-> h, builtin |-> FALSE, exampleTestcases |-> join(ls),
    numParams |-> n, content |-> <<>>, builtinCases |-> <<>>] :
     h \in {"run-tests", "submit"}, ls \in SeqsUpTo(ExampleLines, MaxExampleLines),
     n \in {Null, 1, 2}}
  \cup
  {[handler |-> h, builtin |-> TRUE, exampleTestcases |-> join(ls),
    numParams |-> n, content |-> c, builtinCases |-> <<>>] :
     h \in {"run-tests", "submit"}, ls \in SeqsUpTo(ExampleLines, MaxExampleLines),
     n \in {Null, 1, 2}, c \in Contents}
  \cup
  {[handler |-> h, builtin |-> TRUE, exampleTestcases |-> <<>>,
    numParams |-> 1, content |-> <<>>, builtinCases |-> b] :
     h \in {"run-tests", "submit"}, b \in BuiltinCases \ {<<>>}}

NoTestResponse == [status |-> 0]

NewTest(in) ==
  [pc |-> "derive", in |-> in, testCases |-> <<>>, i |-> 0, running |-> {},
   results |-> <<>>, failedCount |-> 0, resp |-> NoTestResponse]

\* res.json({ results, summary }) of the test run.
RunTestsResponse(results) ==
  LET passed == Cardinality({i \in 1..Len(results) : results[i].passed})
  IN  [status |-> 200, results |-> results,
       summary |-> [total |-> Len(results), passed |-> passed,
                    failed |-> Len(results) - passed],
       error |-> FALSE]

\* The return value of runAllTestsForSubmit.
SubmitVerdict(failedCount, total) ==
  [status |-> 200, allPassed |-> failedCount = 0, failedCount |-> failedCount,
   total |-> total]

\* The cases a handler has at its first await: the stored ones of a
\* built-in problem or the derived ones.
TestCasesOf(in) ==
  LET \* the client's example block reaches the test run only; submit
      \* validation reads the example block of the built-in problem
      exampleTestcases ==
        IF in.handler = "submit" /\ ~in.builtin THEN <<>> ELSE in.exampleTestcases
  IN  IF in.builtin /\ in.builtinCases # <<>> THEN in.builtinCases
      ELSE DeriveTestCases(exampleTestcases, in.numParams,
                           IF in.builtin THEN in.content ELSE <<>>)

\* A handler that would start the executions of all cases at once.
TestDeriveStartsAll ==
  /\ judge.pc = "derive"
  /\ TestCasesOf(judge.in) # <<>>
  /\ judge' = [judge EXCEPT !.pc = "loop", !.testCases = TestCasesOf(judge.in),
                            !.running = 1..Len(TestCasesOf(judge.in))]
  /\ UNCHANGED <<db, tx, reqs, last, clock, started, exec>>

\* The handler up to its first await: the test cases are the stored ones of
\* a built-in problem or are derived; without a case it answers at once,
\* otherwise it calls runCodeOnce for the first case and awaits it.
TestDerive ==
  /\ judge.pc = "derive"
  /\ LET in == judge.in
         testCases == TestCasesOf(in)
     IN  IF testCases = <<>>
         THEN judge' = [judge EXCEPT
                          !.pc = "responded",
                          !.resp = IF in.handler = "run-tests"
                                   THEN [RunTestsResponse(<<>>) EXCEPT !.error = TRUE]
                                   ELSE SubmitVerdict(1, 0)]
         ELSE judge' = [judge EXCEPT !.pc = "loop", !.testCases = testCases,
                                     !.running = {1}]
  /\ UNCHANGED <<db, tx, reqs, last, clock, started, exec>>

\* The verdict on one executed case, lines 748-753 and 817-821.
NoExpected(expected) == trim(expected) = <<>>

CasePassed(stdout, tc) ==
  LET actual == trim(stdout)
      matched == ~NoExpected(tc.expected) /\ outputMatches(actual, tc.expected)
  IN  IF ~matched /\ (actual # <<>> \/ tc.expected # <<>>)
      THEN passesReturnLengthHeuristic(actual, tc.expected, tc.stdin)
      ELSE matched

\* results.push({ index, passed, noExpected, ... }) of an executed case and
\* of a case whose execution threw.
CaseResult(i, stdout, tc) ==
  [index |-> i, passed |-> IF NoExpected(tc.expected) THEN FALSE ELSE CasePassed(stdout, tc),
   noExpected |-> NoExpected(tc.expected), stdin |-> tc.stdin,
   expected |-> trim(tc.expected), actual |-> trim(stdout), error |-> FALSE]

ErrorResult(i, tc) ==
  [index |-> i, passed |-> FALSE, noExpected |-> FALSE, stdin |-> tc.stdin,
   expected |-> trim(tc.expected), actual |-> <<>>, error |-> TRUE]

\* The handler from the return of one runCodeOnce to the next await or to
\* its response: the case is judged and recorded, and the loop calls
\* runCodeOnce for the next case.
AfterCase(result, failed) ==
  LET i == judge.i + 1
      results == Append(judge.results, result)
      failedCount == judge.failedCount + (IF failed THEN 1 ELSE 0)
      last_case == i = Len(judge.testCases)
  IN  /\ judge' = [judge EXCEPT
                     !.i = i,
                     !.running = IF last_case THEN {} ELSE (@ \ {i}) \cup {i + 1},
                     !.results = IF judge.in.handler = "run-tests" THEN results ELSE <<>>,
                     !.failedCount = IF judge.in.handler = "submit" THEN failedCount ELSE 0,
                     !.pc = IF last_case THEN "responded" ELSE "loop",
                     !.resp = IF ~last_case THEN NoTestResponse
                              ELSE IF judge.in.handler = "run-tests"
                              THEN RunTestsResponse(results)
                              ELSE SubmitVerdict(failedCount, Len(judge.testCases))]
      /\ UNCHANGED <<db, tx, reqs, last, clock, started, exec>>

\* A loop that stops at the first case whose execution throws.
RunCaseThrowsAborts ==
  /\ judge.pc = "loop"
  /\ judge' = [judge EXCEPT
                 !.pc = "responded",
                 !.running = {},
                 !.resp = IF judge.in.handler = "run-tests"
                          THEN RunTestsResponse(judge.results)
                          ELSE SubmitVerdict(judge.failedCount + 1, Len(judge.testCases))]
  /\ UNCHANGED <<db, tx, reqs, last, clock, started, exec>>

\* runCodeOnce resolves with a result for the next case.
RunCaseReturns ==
  /\ judge.pc = "loop"
  /\ judge.i + 1 \in judge.running
  /\ \E stdout \in RunStdouts :
       LET tc == judge.testCases[judge.i + 1]
       IN  AfterCase(CaseResult(judge.i + 1, stdout, tc), ~CasePassed(stdout, tc))

\* runCodeOnce rejects for the next case: the catch of the loop body.
RunCaseThrows ==
  /\ judge.pc = "loop"
  /\ judge.i + 1 \in judge.running
  /\ AfterCase(ErrorResult(judge.i + 1, judge.testCases[judge.i + 1]), TRUE)

TestInit ==
  /\ judge \in {NewTest(in) : in \in TestInputs}
  /\ exec = NoExec
  /\ db = NoSnap
  /\ tx = NoTx
  /\ reqs = [u \in Users |-> Idle]
  /\ last = NoResp
  /\ clock = 0
  /\ started = 0

TestNext ==
  \/ TestDerive
  \/ RunCaseReturns
  \/ RunCaseThrows

TestSpec == TestInit /\ [][TestNext]_vars

\* ------------------------------------------------------ the harness step

\* What the runners test of a call before they build the program: the
\* language, whether stdin is not blank, whether meta has a methodName and
\* what its firstParamIsArray is, whether the code declares a class
\* Solution, whether it defines its own entry point (the __main__ guard of
\* Python, main of C and C++), and whether a C function returns int and
\* takes an int pointer.  Without metadata there is no firstParamIsArray.
HarnessInputs ==
  {in \in [language : Languages, hasStdin : BOOLEAN, methodName : BOOLEAN,
           firstParamIsArray : {"true", "false", "undefined"},
           classSolution : BOOLEAN, hasMain : BOOLEAN,
           hasIntReturnAndArrayParam : BOOLEAN] :
     ~in.methodName => in.firstParamIsArray = "undefined"}

\* A program is the sequence of the texts it is made of; <<"code">> is the
\* submitted source alone.
Unchanged == <<"code">>

\* The source with the __main__ block that reads stdin and calls the method
\* of class Solution appended.
wrapPythonLeetCodeHarness(in) ==
  IF ~in.hasStdin \/ ~in.classSolution \/ in.hasMain
  THEN Unchanged
  ELSE <<"code", "python __main__ harness">>

\* runLocalJavaScript runs the source, then the calling script when there is
\* input and a method name.
runLocalJavaScriptScripts(in) ==
  IF in.hasStdin /\ in.methodName
  THEN <<"code", "javascript harness">>
  ELSE Unchanged

\* A runner for C that would wrap every function over an int array.
codeToRunCWrapsAlways(in) ==
  IF in.methodName /\ in.hasIntReturnAndArrayParam
  THEN <<"c includes", "code", "c array main">>
  ELSE IF ~in.hasMain THEN <<"code", "empty main">>
  ELSE Unchanged

\* codeToRun of runLocalC
codeToRunC(in) ==
  LET needsArrayHarness ==
        in.methodName /\ in.hasIntReturnAndArrayParam /\ (~in.hasMain \/ in.hasStdin)
      needsIntHarness ==
        in.methodName /\ in.hasStdin /\ ~in.hasMain /\ in.firstParamIsArray = "false"
  IN  IF needsArrayHarness THEN <<"c includes", "code", "c array main">>
      ELSE IF needsIntHarness THEN <<"c includes", "code", "c int main">>
      ELSE IF ~in.hasMain THEN <<"code", "empty main">>
      ELSE Unchanged

\* codeToRun of runLocalCpp
codeToRunCpp(in) ==
  LET needsHarness == in.methodName /\ in.classSolution /\ (~in.hasMain \/ in.hasStdin)
  IN  IF needsHarness
      THEN IF in.firstParamIsArray = "false"
           THEN <<"c++ includes", "code", "c++ int main">>
           ELSE <<"c++ includes", "code", "c++ array main">>
      ELSE IF ~in.hasMain THEN <<"code", "empty main">>
      ELSE Unchanged

\* The program a path executes: tryPiston sends the code as it is,
\* runLocalJava writes it as it is, the other runners build it.
ExecutedProgram(path, in) ==
  IF path = "remote" THEN Unchanged
  ELSE CASE in.language = "python" -> wrapPythonLeetCodeHarness(in)
         [] in.language = "javascript" -> runLocalJavaScriptScripts(in)
         [] in.language = "c" -> codeToRunC(in)
         [] in.language = "c++" -> codeToRunCpp(in)
         [] OTHER -> Unchanged

\* One execution over the remote or the local path.
HarnessInit ==
  /\ judge \in {[pc |-> "call", in |-> in, path |-> path, program |-> <<>>] :
                  in \in HarnessInputs, path \in {"remote", "local"}}
  /\ judge.path = "local" => judge.in.language \in localRunnersMap
  /\ exec = NoExec
  /\ db = NoSnap
  /\ tx = NoTx
  /\ reqs = [u \in Users |-> Idle]
  /\ last = NoResp
  /\ clock = 0
  /\ started = 0

ProgramBuilt ==
  /\ judge.pc = "call"
  /\ judge' = [judge EXCEPT !.pc = "built",
                            !.program = ExecutedProgram(judge.path, judge.in)]
  /\ UNCHANGED <<db, tx, reqs, last, clock, started, exec>>

HarnessNext == ProgramBuilt

HarnessSpec == HarnessInit /\ [][HarnessNext]_vars

\* --------------------------------------------------------------- the lobby

\* The handlers that make matches: POST /api/queue/join, POST /api/matches
\* and POST /api/matches/:id/join, with the forfeit that ends a match, over
\* several matches and the matchmaking queue.  In this part db is the record
\* of the matches, the queue and users.elo.

\* Requests that arrive in one behaviour of the lobby.
MaxLobbyRequests == 4

\* The ids uuid() gives to the matches of one behaviour: no more matches are
\* made than there are ids.
MatchIds == {"m1", "m2"}

\* No row of matches under an id; a row that was deleted keeps its id taken.
NoMatch == [status |-> "none", ranked |-> FALSE, rows |-> [u \in Users |-> NoRow]]

\* A row of matchmaking_queue.
QueueEntry(id, u) == [id |-> id, user |-> u]

\* SELECT ... FROM matches m JOIN match_players mp ... WHERE mp.user_id = ?
\* AND m.status IN ('waiting', 'active')
ActiveMatchesOf(d, u) ==
  {m \in MatchIds : d.matches[m].rows[u].present
                    /\ d.matches[m].status \in {"waiting", "active"}}

findActiveMatchForUser(d, u) == ActiveMatchesOf(d, u) # {}

\* The users with a row in matchmaking_queue.
Queued(d) == {d.queue[i].user : i \in 1..Len(d.queue)}

\* SELECT * FROM matches WHERE id = ? finds a row.
MatchExists(d, m) == d.matches[m].status \in {"waiting", "active", "complete"}

\* The locals of a lobby request: the match id, the id of the opponent's
\* queue entry and the ranked column read at the start, besides the others.
LobbyLocals == Idle @@ [m |-> "none", entry |-> 0, ranked |-> FALSE]

\* No match, users at the default rating, and possibly u2 waiting in the
\* queue.
LobbyInit ==
  /\ db \in {[matches |-> [m \in MatchIds |-> NoMatch], queue |-> qu,
              nextq |-> Len(qu) + 1, elo |-> DefaultElo] :
               qu \in {<<>>, <<QueueEntry(1, "u2")>>}}
  /\ tx = NoTx
  /\ reqs = [u \in Users |-> Idle]
  /\ last = NoResp
  /\ clock = 0
  /\ started = 0
  /\ exec = NoExec
  /\ judge = NoJudge

\* A request arrives; join and forfeit name the match in the URL.
LobbyStart(op, u, m) ==
  /\ started < MaxLobbyRequests
  /\ Cardinality(InFlight) < MaxInFlight
  /\ u \notin InFlight
  /\ op \in {"queue", "create"} => m = "none"
  /\ op \in {"join", "forfeit"} => m \in MatchIds
  /\ started' = started + 1
  /\ reqs' = [reqs EXCEPT ![u] = [LobbyLocals EXCEPT !.op = op, !.user = u, !.m = m,
                                                     !.pc = "start"]]
  /\ last' = NoResp
  /\ UNCHANGED <<db, tx, clock, exec, judge>>

\* ------------------------------------------------- POST /api/queue/join

\* activeMatch = findActiveMatchForUser(self): 409 with a current match.
QueueReadActive(q) ==
  /\ At(q, "queue", "start")
  /\ IF findActiveMatchForUser(db, q.user) THEN Finish(q, Reply(q, "409"))
     ELSE Goto(q, [q EXCEPT !.pc = "existing"])
  /\ UNCHANGED <<db, tx, clock>>

\* existing = SELECT ... FROM matchmaking_queue WHERE user_id = self
QueueReadExisting(q) ==
  /\ At(q, "queue", "existing")
  /\ IF q.user \in Queued(db) THEN Finish(q, Reply(q, "queued"))
     ELSE Goto(q, [q EXCEPT !.pc = "opponent"])
  /\ UNCHANGED <<db, tx, clock>>

\* opponent = SELECT ... WHERE user_id != self ORDER BY created_at ASC LIMIT 1
QueueReadOpponent(q) ==
  /\ At(q, "queue", "opponent")
  /\ LET others == SelectSeq(db.queue, LAMBDA e : e.user # q.user)
     IN  IF others = <<>> THEN Goto(q, [q EXCEPT !.pc = "insert"])
         ELSE Goto(q, [q EXCEPT !.pc = "opponentActive", !.b = others[1].user,
                                !.entry = others[1].id])
  /\ UNCHANGED <<db, tx, clock>>

\* INSERT INTO matchmaking_queue, of lines 963 and 977; user_id is UNIQUE.
QueueInsert(q) ==
  /\ At(q, "queue", "insert")
  /\ IF q.user \in Queued(db)
     THEN Finish(q, Reply(q, "insert failed")) /\ UNCHANGED db
     ELSE /\ db' = [db EXCEPT !.queue = Append(@, QueueEntry(db.nextq, q.user)),
                              !.nextq = @ + 1]
          /\ Finish(q, Reply(q, "queued"))
  /\ UNCHANGED <<tx, clock>>

\* opponentActive = findActiveMatchForUser(opponent)
QueueReadOpponentActive(q) ==
  /\ At(q, "queue", "opponentActive")
  /\ IF findActiveMatchForUser(db, q.b)
     THEN Goto(q, [q EXCEPT !.pc = "deleteOpponent"])
     ELSE Goto(q, [q EXCEPT !.pc = "users"])
  /\ UNCHANGED <<db, tx, clock>>

\* DELETE FROM matchmaking_queue WHERE id = opponent.id
QueueDeleteOpponent(q) ==
  /\ At(q, "queue", "deleteOpponent")
  /\ db' = [db EXCEPT !.queue = SelectSeq(@, LAMBDA e : e.id # q.entry)]
  /\ Goto(q, [q EXCEPT !.pc = "insert"])
  /\ UNCHANGED <<tx, clock>>

\* [userA, userB] = SELECT id, elo FROM users, of self and of the opponent
QueueReadUsers(q) ==
  /\ At(q, "queue", "users")
  /\ Goto(q, [q EXCEPT !.pc = "begin", !.a = q.user,
                       !.befA = db.elo[q.user], !.befB = db.elo[q.b]])
  /\ UNCHANGED <<db, tx, clock>>

\* await db.run("BEGIN"), outside the try block: a throw ends the handler.
QueueBegin(q) ==
  /\ At(q, "queue", "begin")
  /\ IF BeginThrows(tx)
     THEN Finish(q, Reply(q, "begin failed")) /\ UNCHANGED tx
     ELSE tx' = Begun(db) /\ Goto(q, [q EXCEPT !.pc = "insertMatch"])
  /\ UNCHANGED <<db, clock>>

\* INSERT INTO matches (..., status 'active', ranked 1) under a new id
QueueInsertMatch(q) ==
  /\ At(q, "queue", "insertMatch")
  /\ \E m \in MatchIds :
       /\ db.matches[m].status = "none"
       /\ db' = [db EXCEPT !.matches[m] = [NoMatch EXCEPT !.status = "active",
                                                          !.ranked = TRUE]]
       /\ Goto(q, [q EXCEPT !.pc = "playerA", !.m = m])
  /\ UNCHANGED <<tx, clock>>

\* INSERT INTO match_players (..., userA.id, userA.elo)
QueueInsertPlayerA(q) ==
  /\ At(q, "queue", "playerA")
  /\ db' = [db EXCEPT !.matches[q.m].rows[q.a] = NewRow(q.befA)]
  /\ Goto(q, [q EXCEPT !.pc = "playerB"])
  /\ UNCHANGED <<tx, clock>>

\* INSERT INTO match_players (..., userB.id, userB.elo)
QueueInsertPlayerB(q) ==
  /\ At(q, "queue", "playerB")
  /\ db' = [db EXCEPT !.matches[q.m].rows[q.b] = NewRow(q.befB)]
  /\ Goto(q, [q EXCEPT !.pc = "dequeue"])
  /\ UNCHANGED <<tx, clock>>

\* DELETE FROM matchmaking_queue WHERE id = opponent.id OR user_id = self
QueueDeleteEntries(q) ==
  /\ At(q, "queue", "dequeue")
  /\ db' = [db EXCEPT !.queue =
              SelectSeq(@, LAMBDA e : e.id # q.entry /\ e.user # q.user)]
  /\ Goto(q, [q EXCEPT !.pc = "commit"])
  /\ UNCHANGED <<tx, clock>>

\* COMMIT, then res.json({ status: "matched", match })
QueueCommit(q) ==
  /\ At(q, "queue", "commit")
  /\ tx' = NoTx
  /\ Finish(q, Reply(q, "matched"))
  /\ UNCHANGED <<db, clock>>

\* ----------------------------------------------------- POST /api/matches

\* user = SELECT id, elo FROM users
CreateReadUser(q) ==
  /\ At(q, "create", "start")
  /\ Goto(q, [q EXCEPT !.pc = "dequeue", !.elo = db.elo[q.user]])
  /\ UNCHANGED <<db, tx, clock>>

\* DELETE FROM matchmaking_queue WHERE user_id = self
CreateDeleteEntry(q) ==
  /\ At(q, "create", "dequeue")
  /\ db' = [db EXCEPT !.queue = SelectSeq(@, LAMBDA e : e.user # q.user)]
  /\ Goto(q, [q EXCEPT !.pc = "insertMatch"])
  /\ UNCHANGED <<tx, clock>>

\* INSERT INTO matches (..., status 'waiting', ranked 0) under a new id
CreateInsertMatch(q) ==
  /\ At(q, "create", "insertMatch")
  /\ \E m \in MatchIds :
       /\ db.matches[m].status = "none"
       /\ db' = [db EXCEPT !.matches[m] = [NoMatch EXCEPT !.status = "waiting"]]
       /\ Goto(q, [q EXCEPT !.pc = "player", !.m = m])
  /\ UNCHANGED <<tx, clock>>

\* INSERT INTO match_players, then res.json({ match })
CreateInsertPlayer(q) ==
  /\ At(q, "create", "player")
  /\ db' = [db EXCEPT !.matches[q.m].rows[q.user] = NewRow(q.elo)]
  /\ Finish(q, Reply(q, "created"))
  /\ UNCHANGED <<tx, clock>>

\* ------------------------------- POST /api/matches/:id/join, of the lobby

LobbyJoinReadMatch(q) ==
  /\ At(q, "join", "start")
  /\ IF ~MatchExists(db, q.m) THEN Finish(q, Reply(q, "404"))
     ELSE IF db.matches[q.m].status # "waiting" THEN Finish(q, Reply(q, "400 started"))
     ELSE Goto(q, [q EXCEPT !.pc = "existing"])
  /\ UNCHANGED <<db, tx, clock>>

LobbyJoinReadExisting(q) ==
  /\ At(q, "join", "existing")
  /\ IF db.matches[q.m].rows[q.user].present THEN Finish(q, Reply(q, "joined"))
     ELSE Goto(q, [q EXCEPT !.pc = "count"])
  /\ UNCHANGED <<db, tx, clock>>

LobbyJoinReadCount(q) ==
  /\ At(q, "join", "count")
  /\ IF Cardinality(PlayersOf(db.matches[q.m])) >= 2 THEN Finish(q, Reply(q, "400 full"))
     ELSE Goto(q, [q EXCEPT !.pc = "user"])
  /\ UNCHANGED <<db, tx, clock>>

LobbyJoinReadUser(q) ==
  /\ At(q, "join", "user")
  /\ Goto(q, [q EXCEPT !.pc = "insert", !.elo = db.elo[q.user]])
  /\ UNCHANGED <<db, tx, clock>>

\* INSERT INTO match_players: throws on UNIQUE(match_id, user_id) and on the
\* foreign key when the match row is gone.
LobbyJoinInsert(q) ==
  /\ At(q, "join", "insert")
  /\ IF db.matches[q.m].rows[q.user].present \/ ~MatchExists(db, q.m)
     THEN Finish(q, Reply(q, "insert failed")) /\ UNCHANGED db
     ELSE /\ db' = [db EXCEPT !.matches[q.m].rows[q.user] = NewRow(q.elo)]
          /\ Goto(q, [q EXCEPT !.pc = "activate"])
  /\ UNCHANGED <<tx, clock>>

\* UPDATE matches SET status = 'active'
LobbyJoinActivate(q) ==
  /\ At(q, "join", "activate")
  /\ db' = IF MatchExists(db, q.m) THEN [db EXCEPT !.matches[q.m].status = "active"]
           ELSE db
  /\ Finish(q, Reply(q, "joined"))
  /\ UNCHANGED <<tx, clock>>

\* ---------------------------- POST /api/matches/:id/forfeit, of the lobby

LobbyForfeitReadMatch(q) ==
  /\ At(q, "forfeit", "start")
  /\ IF ~MatchExists(db, q.m) THEN Finish(q, Reply(q, "404"))
     ELSE IF db.matches[q.m].status = "complete" THEN Finish(q, Reply(q, "400 complete"))
     ELSE Goto(q, [q EXCEPT !.pc = "forfeiter", !.mstatus = db.matches[q.m].status,
                            !.ranked = db.matches[q.m].ranked])
  /\ UNCHANGED <<db, tx, clock>>

LobbyForfeitReadForfeiter(q) ==
  /\ At(q, "forfeit", "forfeiter")
  /\ IF ~db.matches[q.m].rows[q.user].present THEN Finish(q, Reply(q, "403"))
     ELSE Goto(q, [q EXCEPT
            !.pc = IF q.mstatus = "waiting" THEN "leave" ELSE "opponent",
            !.a = q.user,
            !.befA = db.matches[q.m].rows[q.user].elo_before])
  /\ UNCHANGED <<db, tx, clock>>

\* DELETE FROM match_players WHERE match_id = ? AND user_id = ?
LobbyForfeitLeave(q) ==
  /\ At(q, "forfeit", "leave")
  /\ db' = [db EXCEPT !.matches[q.m].rows[q.user] = NoRow]
  /\ Goto(q, [q EXCEPT !.pc = "remaining"])
  /\ UNCHANGED <<tx, clock>>

LobbyForfeitReadRemaining(q) ==
  /\ At(q, "forfeit", "remaining")
  /\ IF Cardinality(PlayersOf(db.matches[q.m])) = 0
     THEN Goto(q, [q EXCEPT !.pc = "deleteMatch"])
     ELSE Finish(q, Reply(q, "left"))
  /\ UNCHANGED <<db, tx, clock>>

\* DELETE FROM matches WHERE id = ?, with ON DELETE CASCADE
LobbyForfeitDeleteMatch(q) ==
  /\ At(q, "forfeit", "deleteMatch")
  /\ db' = IF MatchExists(db, q.m)
           THEN [db EXCEPT !.matches[q.m] = [NoMatch EXCEPT !.status = "deleted"]]
           ELSE db
  /\ Finish(q, Reply(q, "left"))
  /\ UNCHANGED <<tx, clock>>

\* players = SELECT user_id, elo_before (no ORDER BY); the ratings of the
\* forfeit are computed from the elo_before of the two rows.
LobbyForfeitReadPlayers(q) ==
  /\ At(q, "forfeit", "opponent")
  /\ LET match == db.matches[q.m]
         others == PlayersOf(match) \ {q.user}
     IN  IF Cardinality(PlayersOf(match)) < 2 \/ others = {}
         THEN Finish(q, Reply(q, "400 cannot"))
         ELSE \E first \in PlayersOf(match), opponent \in others :
                /\ first # q.user => opponent = first
                /\ (match.rows[opponent].elo_before - q.befA) \in EloDiffs
                /\ Goto(q, [Forfeited([match EXCEPT !.ranked = q.ranked], q, first, opponent)
                              EXCEPT !.pc = "begin"])
  /\ UNCHANGED <<db, tx, clock>>

LobbyForfeitBegin(q) ==
  /\ At(q, "forfeit", "begin")
  /\ IF BeginThrows(tx)
     THEN Finish(q, Reply(q, "begin failed")) /\ UNCHANGED tx
     ELSE tx' = Begun(db) /\ Goto(q, [q EXCEPT !.pc = "rowA"])
  /\ UNCHANGED <<db, clock>>

\* UPDATE match_players SET ... WHERE match_id = ? AND user_id = ?
LobbyUpdateRow(d, m, u, row) ==
  IF d.matches[m].rows[u].present THEN [d EXCEPT !.matches[m].rows[u] = row] ELSE d

\* UPDATE match_players SET elo_after = ?, is_winner = 0, runtime_ms = NULL,
\* submitted_at = ? ... user_id = forfeiter
LobbyForfeitWriteForfeiter(q) ==
  /\ At(q, "forfeit", "rowA")
  /\ db' = LobbyUpdateRow(db, q.m, q.a,
             [Outcome(db.matches[q.m].rows[q.a], q.newA, 0) EXCEPT !.runtime_ms = Null,
                                                                 !.submitted_at = clock])
  /\ Goto(q, [q EXCEPT !.pc = "rowB"])
  /\ UNCHANGED <<tx, clock>>

\* UPDATE match_players SET elo_after = ?, is_winner = 1 ... user_id = opponent
LobbyForfeitWriteOpponent(q) ==
  /\ At(q, "forfeit", "rowB")
  /\ db' = LobbyUpdateRow(db, q.m, q.b, Outcome(db.matches[q.m].rows[q.b], q.newB, 1))
  /\ Goto(q, [q EXCEPT !.pc = IF q.ranked THEN "eloA" ELSE "status"])
  /\ UNCHANGED <<tx, clock>>

\* if (ranked) UPDATE users SET elo = forfeiterNewElo
LobbyForfeitWriteEloForfeiter(q) ==
  /\ At(q, "forfeit", "eloA")
  /\ db' = UpdateElo(db, q.a, q.newA)
  /\ Goto(q, [q EXCEPT !.pc = "eloB"])
  /\ UNCHANGED <<tx, clock>>

\* if (ranked) UPDATE users SET elo = opponentNewElo
LobbyForfeitWriteEloOpponent(q) ==
  /\ At(q, "forfeit", "eloB")
  /\ db' = UpdateElo(db, q.b, q.newB)
  /\ Goto(q, [q EXCEPT !.pc = "status"])
  /\ UNCHANGED <<tx, clock>>

\* UPDATE matches SET status = 'complete'
LobbyForfeitWriteStatus(q) ==
  /\ At(q, "forfeit", "status")
  /\ db' = IF MatchExists(db, q.m) THEN [db EXCEPT !.matches[q.m].status = "complete"]
           ELSE db
  /\ Goto(q, [q EXCEPT !.pc = "commit"])
  /\ UNCHANGED <<tx, clock>>

\* COMMIT, then res.json({ status: "forfeited", ... })
LobbyForfeitCommit(q) ==
  /\ At(q, "forfeit", "commit")
  /\ tx' = NoTx
  /\ Finish(q, [Reply(q, "forfeited") EXCEPT !.winnerId = q.b])
  /\ UNCHANGED <<db, clock>>

LobbyNext ==
  \E u \in Users :
    \/ \E op \in {"queue", "create"} : LobbyStart(op, u, "none")
    \/ \E op \in {"join", "forfeit"}, m \in MatchIds : LobbyStart(op, u, m)
    \/ QueueReadActive(reqs[u])
    \/ QueueReadExisting(reqs[u])
    \/ QueueReadOpponent(reqs[u])
    \/ QueueInsert(reqs[u])
    \/ QueueReadOpponentActive(reqs[u])
    \/ QueueDeleteOpponent(reqs[u])
    \/ QueueReadUsers(reqs[u])
    \/ QueueBegin(reqs[u])
    \/ QueueInsertMatch(reqs[u])
    \/ QueueInsertPlayerA(reqs[u])
    \/ QueueInsertPlayerB(reqs[u])
    \/ QueueDeleteEntries(reqs[u])
    \/ QueueCommit(reqs[u])
    \/ CreateReadUser(reqs[u])
    \/ CreateDeleteEntry(reqs[u])
    \/ CreateInsertMatch(reqs[u])
    \/ CreateInsertPlayer(reqs[u])
    \/ LobbyJoinReadMatch(reqs[u])
    \/ LobbyJoinReadExisting(reqs[u])
    \/ LobbyJoinReadCount(reqs[u])
    \/ LobbyJoinReadUser(reqs[u])
    \/ LobbyJoinInsert(reqs[u])
    \/ LobbyJoinActivate(reqs[u])
    \/ LobbyForfeitReadMatch(reqs[u])
    \/ LobbyForfeitReadForfeiter(reqs[u])
    \/ LobbyForfeitLeave(reqs[u])
    \/ LobbyForfeitReadRemaining(reqs[u])
    \/ LobbyForfeitDeleteMatch(reqs[u])
    \/ LobbyForfeitReadPlayers(reqs[u])
    \/ LobbyForfeitBegin(reqs[u])
    \/ LobbyForfeitWriteForfeiter(reqs[u])
    \/ LobbyForfeitWriteOpponent(reqs[u])
    \/ LobbyForfeitWriteEloForfeiter(reqs[u])
    \/ LobbyForfeitWriteEloOpponent(reqs[u])
    \/ LobbyForfeitWriteStatus(reqs[u])
    \/ LobbyForfeitCommit(reqs[u])

LobbySpec == LobbyInit /\ [][LobbyNext]_vars

\* ------------------------------------------------------------------ claims

\* What a reader outside the open transaction is promised: the content as of
\* the BEGIN while a transaction is open, the content itself otherwise.
Committed == IF tx.open THEN tx.snap ELSE db

\* The request of user u takes this step.
StepOf(u) == reqs'[u] # reqs[u] /\ reqs[u].pc # "idle"

\* C1: when two submits race on a match in which both durations are recorded,
\* the submit that reaches the finalize step ends with the complete outcome:
\* it either computes and writes it or reads it back; it never ends otherwise.
C1_RacingSubmitsBothGetOutcome ==
  (/\ last.op = "submit"
   /\ last.kind \in {"begin failed", "waiting", "complete"}
   /\ ~NotBothSubmitted(Committed)
   /\ \E v \in Users \ {last.user} : reqs[v].op = "submit")
  => last.kind = "complete"

\* C2: once elo_after and is_winner of a player row are committed they are
\* never written again, whatever submit and forfeit steps follow.
C2_OutcomeWrittenOnce ==
  [][\A u \in Users :
       LET c == Committed.rows[u]
       IN  (c.present /\ c.elo_after # Null /\ db'.rows[u].present)
           => /\ db'.rows[u].elo_after = c.elo_after
              /\ db'.rows[u].is_winner = c.is_winner]_vars

\* C3: a submit records its runtime and timestamp only after the submitted
\* code has passed every derived test case.
C3_RecordOnlyAfterFullPass ==
  \A u \in Users : At(reqs[u], "submit", "record") => reqs[u].tested

\* C4: after a forfeit of a ranked match the forfeiter's elo_after is the
\* update of the forfeiter's own elo_before with score 0 and the opponent's
\* that of the opponent's own elo_before with score 1; the forfeiter does not
\* gain and the opponent does not lose.
C4_ForfeitRatings ==
  (/\ last.kind = "forfeited"
   /\ db.ranked
   /\ db.rows[last.user].present
   /\ db.rows[last.winnerId].present)
  => LET f == db.rows[last.user]
         o == db.rows[last.winnerId]
         eloUpdate == computeEloUpdate(f.elo_before, o.elo_before, 0, 2, Null, Null)
     IN  /\ f.elo_after = eloUpdate.newEloA
         /\ o.elo_after = eloUpdate.newEloB
         /\ f.elo_after <= f.elo_before
         /\ o.elo_after >= o.elo_before

\* C5: a submit by a registered player on a match that is already complete
\* answers with the complete outcome and none of its steps changes the match
\* row, a player row or a user rating.
C5_SubmitOnCompleteIdempotent ==
  [][\A u \in Users :
       (/\ reqs[u].op = "submit"
        /\ StepOf(u)
        /\ Committed.status = "complete"
        /\ Committed.rows[u].present)
       => /\ db' = db
          /\ last'.kind # "none" => last'.kind = "complete"]_vars

\* C6: the status of a match only moves from waiting to active and from
\* active to complete (a waiting match may be deleted); complete is terminal.
C6_StatusOnlyMovesForward ==
  [][\/ db'.status = db.status
     \/ db.status = "waiting" /\ db'.status \in {"active", "none"}
     \/ db.status = "active" /\ db'.status = "complete"]_vars

\* C7: a match never has more than two player rows, and an active match has
\* exactly two.
C7_TwoPlayerRows ==
  /\ Cardinality(PlayersOf(db)) <= 2
  /\ db.status = "active" => Cardinality(PlayersOf(db)) = 2

\* C8: outside an open finalize transaction either the match is not complete
\* and no player row has elo_after or is_winner, or it is complete and every
\* player row has both.
C8_OutcomeAllOrNothing ==
  ~tx.open =>
    \/ /\ db.status # "complete"
       /\ \A u \in PlayersOf(db) :
            db.rows[u].elo_after = Null /\ db.rows[u].is_winner = Null
    \/ /\ db.status = "complete"
       /\ \A u \in PlayersOf(db) :
            db.rows[u].elo_after # Null /\ db.rows[u].is_winner # Null

C10_RejectedSubmitChangesNothing ==
  [][\A u \in Users :
       (/\ reqs[u].op = "submit"
        /\ reqs[u].pc \in {"match", "player", "validate"}
        /\ StepOf(u))
       => /\ db' = db /\ tx' = tx /\ clock' = clock
          /\ last'.kind = "400 tests"
               => /\ last'.total > 0
                  /\ 0 <= last'.passed /\ last'.passed < last'.total]_vars

\* A submit has just been rejected with one of two cases passed, the players
\* having no runtime recorded.
C10_Witness ==
  /\ last.op = "submit" /\ last.kind = "400 tests"
  /\ last.passed = 1 /\ last.total = 2
  /\ db.rows[last.user].present
  /\ db.rows[last.user].runtime_ms = Null

\* The outcome columns of the match: status, every row's elo_after and
\* is_winner, every user rating.
OutcomeFields(d) ==
  [status |-> d.status, elo |-> d.elo,
   elo_after |-> [w \in Users |-> d.rows[w].elo_after],
   is_winner |-> [w \in Users |-> d.rows[w].is_winner]]

\* The players of d with a recorded duration.
Recorded(d) == {w \in PlayersOf(d) : d.rows[w].runtime_ms # Null}

C12_WinnerByEarlierTimestamp ==
  [][\A u \in Users :
       /\ (At(reqs[u], "submit", "players") /\ reqs'[u].pc = "rowA")
          => LET q == reqs'[u]
                 ta == db.rows[q.a].submitted_at
                 tb == db.rows[q.b].submitted_at
             IN  /\ q.a # q.b /\ {q.a, q.b} \subseteq PlayersOf(db)
                 /\ ta # Null /\ tb # Null
                 /\ q.winnerId = IF ta < tb THEN q.a ELSE IF tb < ta THEN q.b ELSE "none"
       /\ (At(reqs[u], "submit", "commit") /\ StepOf(u))
          => LET q == reqs[u]
             IN  /\ last'.kind = "complete" /\ last'.winnerId = q.winnerId
                 /\ \A x \in {q.a, q.b} :
                      /\ db'.rows[x].is_winner = 1 => x = q.winnerId
                      /\ x \in PlayersOf(db')
                         => db'.rows[x].is_winner = IF x = q.winnerId THEN 1 ELSE 0]_vars

\* A submit has just finalized: the winner submitted earlier and ran slower
\* (200 ms against 50 ms).
C12_Witness ==
  /\ last.op = "submit" /\ last.kind = "complete" /\ last.computed
  /\ last.winnerId \in PlayersOf(db)
  /\ \E l \in PlayersOf(db) \ {last.winnerId} :
       /\ db.rows[last.winnerId].submitted_at < db.rows[l].submitted_at
       /\ db.rows[last.winnerId].runtime_ms = 200 /\ db.rows[l].runtime_ms = 50
       /\ db.rows[last.winnerId].is_winner = 1 /\ db.rows[l].is_winner = 0

\* C13: a forfeit of an active match ends it decisively: when the forfeit
\* commits the match is complete, the forfeiter's row has is_winner 0 and the
\* remaining player's row has is_winner 1, whatever the submission timestamps.
C13_ForfeitIsDecisive ==
  [][\A u \in Users :
       (At(reqs[u], "forfeit", "commit") /\ StepOf(u))
       => LET q == reqs[u]
          IN  /\ last'.kind = "forfeited" /\ last'.winnerId = q.b /\ q.b # u
              /\ db'.status = "complete"
              /\ db'.rows[u].is_winner = 0
              /\ db'.rows[q.b].is_winner = 1]_vars

\* C14: in an unranked match no step changes a user rating, and the submit or
\* forfeit that finalizes it commits elo_after equal to elo_before in the rows
\* of both players.
C14_UnrankedKeepsRatings ==
  [][~db.ranked =>
       /\ db'.elo = db.elo
       /\ \A u \in Users :
            (reqs[u].pc = "commit" /\ StepOf(u))
            => \A w \in {reqs[u].a, reqs[u].b} \cap PlayersOf(db') :
                 db'.rows[w].elo_after = db'.rows[w].elo_before]_vars

\* An unranked match has just been finalized by a submit: both rows carry
\* elo_after = elo_before and the users' ratings are the initial ones.
C14_Witness ==
  /\ ~db.ranked /\ db.status = "complete"
  /\ last.op = "submit" /\ last.kind = "complete" /\ last.computed
  /\ last.eloDelta = 0
  /\ Cardinality(PlayersOf(db)) = 2
  /\ \A w \in PlayersOf(db) :
       db.rows[w].elo_after = db.rows[w].elo_before /\ db.elo[w] = DefaultElo[w]

\* C15: a join does not get into a match that is not waiting or that has two
\* players: no step of the request up to its INSERT adds a player row or
\* changes the status of such a match.
C15_JoinRejectedUnlessWaitingAndOpen ==
  [][\A u \in Users :
       (/\ reqs[u].op = "join"
        /\ reqs[u].pc \in {"match", "existing", "count", "user", "insert"}
        /\ StepOf(u)
        /\ (db.status # "waiting" \/ Cardinality(PlayersOf(db)) >= 2))
       => /\ PlayersOf(db') = PlayersOf(db)
          /\ db'.status = db.status]_vars

\* C16: a forfeit on a waiting match only removes the forfeiter's own row and
\* deletes the match only when no player remains: every step of its leave
\* branch taken while the match is waiting leaves the other players' rows and
\* all ratings alone, sets no elo_after or is_winner, and either keeps the
\* status or deletes a match without players.
C16_WaitingForfeitOnlyLeaves ==
  [][\A u \in Users :
       (/\ reqs[u].op = "forfeit"
        /\ reqs[u].pc \in {"leave", "remaining", "deleteMatch"}
        /\ StepOf(u)
        /\ db.status = "waiting")
       => /\ db'.elo = db.elo
          /\ \A w \in PlayersOf(db') :
               db'.rows[w].elo_after = Null /\ db'.rows[w].is_winner = Null
          /\ \/ db'.status = "waiting" /\ \A w \in Users \ {u} : db'.rows[w] = db.rows[w]
             \/ db'.status = "none" /\ PlayersOf(db) = {}]_vars

\* C17: a submit on a waiting match is not accepted: no step of a submit
\* taken while the match is waiting changes a player row (no runtime_ms, no
\* submitted_at is recorded) or answers with waiting or complete.
C17_NoSubmitWhileWaiting ==
  [][\A u \in Users :
       (reqs[u].op = "submit" /\ StepOf(u) /\ db.status = "waiting")
       => /\ db'.rows = db.rows
          /\ last'.kind \notin {"waiting", "complete"}]_vars

\* The rating delta recorded in a player row.
Delta(row) == row.elo_after - row.elo_before

\* C18: in every finalized ranked match the rating deltas of the two players
\* sum to zero.
C18_DeltasSumToZero ==
  (/\ db.ranked /\ db.status = "complete" /\ ~tx.open
   /\ PlayersOf(db) = {"u1", "u2"})
  => Delta(db.rows["u1"]) + Delta(db.rows["u2"]) = 0

\* C19: the k of a finalizing submit is 32 times the ratio runtimeB / runtimeA
\* clamped to [3/4, 3/2] and rounded, so it lies in 24..48; with a runtime
\* missing or not positive k is 32, and the ratings a forfeit commits are
\* those of k = 32.
C19_KWithinBounds ==
  /\ (last.op = "submit" /\ last.computed /\ db.ranked)
     => LET ra == db.rows["u1"].runtime_ms
            rb == db.rows["u2"].runtime_ms
            k == last.k
        IN  /\ ra > 0 /\ rb > 0
            /\ k \in 24..48
            /\ IF 4 * rb <= 3 * ra THEN k = 24
               ELSE IF 2 * rb >= 3 * ra THEN k = 48
               ELSE (2 * k - 1) * ra <= 64 * rb /\ 64 * rb < (2 * k + 1) * ra
  /\ \A r1, r2 \in EloRuntimes \cup {0, Null} :
       (r1 <= 0 \/ r2 <= 0) => KFactor(r1, r2) = 32
  /\ (last.kind = "forfeited" /\ db.ranked)
     => LET f == db.rows[last.user]
            o == db.rows[last.winnerId]
        IN  {f.elo_after, o.elo_after} =
              {NewElo(f.elo_before, 32, 0, expectedScore(f.elo_before, o.elo_before)),
               NewElo(o.elo_before, 32, 2, expectedScore(o.elo_before, f.elo_before))}

\* A submit has just finalized with k at its upper end: u1 ran 50 ms, u2
\* 200 ms.
C19_Witness ==
  /\ last.op = "submit" /\ last.computed /\ db.ranked
  /\ db.rows["u1"].runtime_ms = 50 /\ db.rows["u2"].runtime_ms = 200
  /\ last.k = 48

\* C20: two players rated 1200, A with runtime 50 and the later submission, B
\* with runtime 200 and the earlier one: B wins, k is 48, B ends at 1224 and
\* A at 1176.
C20_SlowEarlyWinnerGains24 ==
  (last.op = "submit" /\ last.computed /\ last.kind = "complete" /\ db.ranked)
  => \A A, B \in PlayersOf(db) :
       ( /\ A # B
         /\ db.rows[A].elo_before = 1200 /\ db.rows[B].elo_before = 1200
         /\ db.rows[A].runtime_ms = 50 /\ db.rows[B].runtime_ms = 200
         /\ db.rows[B].submitted_at < db.rows[A].submitted_at )
       => /\ last.winnerId = B
          /\ last.k = 48
          /\ db.rows[B].elo_after = 1224
          /\ db.rows[A].elo_after = 1176

\* The remote call of the execution call was made and threw.
RemoteFailed(e) ==
  /\ e.tried # <<>> /\ e.tried[1] = "remote"
  /\ Len(e.tried) = 2 \/ e.resp.status = 502

\* The local runner of the execution call could not run the program: a
\* file-system call or a spawn failed.
LocalFailed(e) ==
  /\ "local" \in {e.tried[i] : i \in 1..Len(e.tried)}
  /\ \/ \E p \in ProcIds : e.proc[p].state = "failed"
     \/ e.resp.stderr \in {<<"mkdir error">>, <<"write error">>}

\* The chunks of the remote service.
RemoteChunks == {"remote out", "remote err"}
\* The chunks of a response.
ChunksOf(r) ==
  {r.stdout[i] : i \in 1..Len(r.stdout)} \cup {r.stderr[i] : i \in 1..Len(r.stderr)}

\* C21: an execution call that returns a result returns the output of the
\* one path it called last, remote or local, never chunks of both; and when
\* the remote call and the local runner have both failed the call answers
\* with the execution error (502), not with a result.
C21_OnePathOrExecutionError ==
  exec.pc = "done"
  => /\ exec.resp.status = 200
        => IF exec.tried[Len(exec.tried)] = "remote"
           THEN ChunksOf(exec.resp) \subseteq RemoteChunks
           ELSE ChunksOf(exec.resp) \cap RemoteChunks = {}
     /\ (RemoteFailed(exec) /\ LocalFailed(exec)) => exec.resp.status = 502

\* C22: when the router chose the local runner first and it failed, the
\* remote service has been called after it; when it chose the remote service
\* first and that call failed, the local runner of the language has been
\* called after it.
C22_FallbackBothWays ==
  exec.pc = "done"
  => /\ (exec.route = "local" /\ LocalFailed(exec))
        => exec.tried = <<"local", "remote">>
     /\ (exec.route = "remote" /\ RemoteFailed(exec)
           /\ exec.in.language \in localRunnersMap)
        => exec.tried = <<"remote", "local">>

\* C23: in a runner that compiles, the program is started only after the
\* compiler has exited with code 0; when the compiler has ended in any other
\* way (a failed spawn, another exit code, the kill of the timeout) no
\* program is started and the result is an empty stdout with the compiler's
\* stderr, or "Compilation failed" when that is empty.
C23_RunOnlyAfterCompile ==
  (exec.pc # "none" /\ exec.in.language \in CompiledLanguages)
  => LET compile == exec.proc["compile"]
         succeeded == compile.state = "exited" /\ compile.code = 0
     IN  /\ exec.proc["run"].state # "none" => (compile.resolved /\ succeeded)
         /\ (exec.pc = "done" /\ compile.resolved /\ ~succeeded)
            => /\ exec.proc["run"].state = "none"
               /\ exec.resp.stdout = <<>>
               /\ exec.resp.stderr = IF compile.stderr # <<>> THEN compile.stderr
                                     ELSE <<"Compilation failed">>

\* C24: once a local runner has returned its result, the working directory
\* it made eventually does not exist, whichever way the runner ended.
C24_WorkDirRemoved == (exec.pc = "done") ~> (~exec.dir /\ ~exec.rm)

\* runLocalPython has returned after its interpreter was killed on timeout,
\* and the directory it ran in is gone.
C24_Witness ==
  /\ exec.pc = "done" /\ exec.in.language = "python"
  /\ exec.proc["run"].resolved /\ exec.proc["run"].state = "killed"
  /\ ~exec.dir /\ ~exec.rm

\* C25: every runWithStdin call resolves, whether or not its process exits
\* by itself, and it resolves with everything the process wrote to stdout
\* and stderr before it ended, also when the timeout killed it.
C25_SpawnedCallResolves ==
  /\ \A p \in ProcIds : (exec.proc[p].state # "none") ~> exec.proc[p].resolved
  /\ [](\A p \in ProcIds :
          exec.proc[p].resolved
          => /\ Len(exec.proc[p].stdout) = exec.proc[p].nout
             /\ Chunks(exec.proc[p].stderr, "err") = exec.proc[p].nerr)

\* A process that wrote to both streams was killed by the timeout, and its
\* call has resolved with what it wrote.
C25_Witness ==
  \E p \in ProcIds :
    /\ exec.proc[p].resolved /\ exec.proc[p].state = "killed"
    /\ exec.proc[p].nout > 0 /\ exec.proc[p].stdout # <<>>
    /\ exec.proc[p].nerr > 0 /\ exec.proc[p].stderr # <<>>

\* The number of elements of a JSON array text, counted on its characters:
\* none between the brackets, else one more than the commas that are inside
\* no inner bracket.
Depth(s, i) ==
  Cardinality({j \in 1..i : s[j] = "["}) - Cardinality({j \in 1..i : s[j] = "]"})
ArrayLength(s) ==
  IF \A i \in 2..(Len(s) - 1) : IsSpace(s[i]) THEN 0
  ELSE 1 + Cardinality({i \in 1..Len(s) : s[i] = "," /\ Depth(s, i) = 1})

\* C30: outputMatches returns true exactly when the normalized strings are
\* equal, or the actual output is a string of digits and the expected value
\* parses as an array with that many elements; "3" matches "[0,1,2]" and
\* does not match "[0,1,2,4]".
C30_MatchesIffEqualOrArrayLength ==
  judge.pc = "returned"
  => LET a == trim(judge.actual)
         e == trim(judge.expected)
     IN  /\ judge.ret
            <=> \/ normalizeOutput(judge.actual) = normalizeOutput(judge.expected)
                \/ /\ IsDigits(a)
                   /\ JSONparse(e).ok /\ e[1] = "["
                   /\ Number(a) = ArrayLength(e)
         /\ (a = <<"3">> /\ e = <<"[", "0", ",", "1", ",", "2", "]">>) => judge.ret
         /\ (a = <<"3">> /\ e = <<"[", "0", ",", "1", ",", "2", ",", "4", "]">>)
            => ~judge.ret

\* outputMatches has returned true for "3" against "[0,1,2]", which are not
\* equal after normalization.
C30_Witness ==
  /\ judge.pc = "returned" /\ judge.ret
  /\ judge.actual = <<"3">>
  /\ judge.expected = <<"[", "0", ",", "1", ",", "2", "]">>
  /\ normalizeOutput(judge.actual) # normalizeOutput(judge.expected)

\* C28: with a known parameter count N, an example block whose non-empty
\* trimmed lines are a whole number of blocks of N + 1 lines is derived into
\* exactly one case per block, in order: case c has the first N lines of the
\* c-th block as input and its last line as expected output; 3 lines with
\* N = 2 give one case.
C28_CasesAreBlocks ==
  LET lines == TrimmedLines(judge.exampleTestcases)
      N == judge.numParams
      cases == judge.ret
  IN  (judge.pc = "returned" /\ N # Null /\ Len(lines) % (N + 1) = 0)
      => /\ Len(cases) = Len(lines) \div (N + 1)
         /\ \A c \in 1..Len(cases) :
              /\ cases[c].stdin = join(SubSeq(lines, (c - 1) * (N + 1) + 1, c * (N + 1) - 1))
              /\ cases[c].expected = lines[c * (N + 1)]
         /\ (Len(lines) = 3 /\ N = 2) => Len(cases) = 1

\* C26: a test run answers with exactly one result per test case, in the
\* order of the cases and with index equal to the ordinal of the case, also
\* when the execution of a case threw; a case whose execution threw is
\* reported as not passed, and the summary has passed + failed = total = the
\* number of cases.
C26_OneResultPerCase ==
  (judge.pc = "responded" /\ judge.in.handler = "run-tests")
  => LET results == judge.resp.results
         summary == judge.resp.summary
     IN  /\ Len(results) = Len(judge.testCases)
         /\ \A i \in 1..Len(results) :
              /\ results[i].index = i
              /\ results[i].stdin = judge.testCases[i].stdin
              /\ results[i].error => ~results[i].passed
         /\ summary.total = Len(judge.testCases)
         /\ summary.passed + summary.failed = summary.total
         /\ summary.passed = Cardinality({i \in 1..Len(results) : results[i].passed})

\* A test run of two derived cases whose first execution threw and whose
\* second case passed.
C26_Witness ==
  /\ judge.pc = "responded" /\ judge.in.handler = "run-tests"
  /\ judge.in.builtinCases = <<>>
  /\ Len(judge.testCases) = 2
  /\ judge.resp.results[1].error
  /\ judge.resp.results[2].passed
  /\ judge.resp.summary = [total |-> 2, passed |-> 1, failed |-> 1]

\* C27: a test case with an empty expected value is never counted as
\* passed: the test run reports it as not passed, with the noExpected flag
\* when it was executed, and submit validation counts it as failed.
C27_EmptyExpectedNeverPasses ==
  judge.pc = "responded"
  => LET empty == {i \in 1..Len(judge.testCases) :
                     NoExpected(judge.testCases[i].expected)}
     IN  IF judge.in.handler = "run-tests"
         THEN \A i \in empty :
                /\ ~judge.resp.results[i].passed
                /\ ~judge.resp.results[i].error => judge.resp.results[i].noExpected
         ELSE /\ judge.resp.failedCount >= Cardinality(empty)
              /\ empty # {} => ~judge.resp.allPassed

\* C29: for cases derived from the example block of a problem whose
\* description writes all its Output markers in one style, a description
\* with at least as many markers as cases gives every case i the value of
\* the i-th marker as expected value, and a description with fewer markers
\* leaves the cases of the example block unchanged.
C29_MarkersOverrideOrKeep ==
  LET in == judge.in
      base == parseTestCases(in.exampleTestcases, in.numParams)
      markers == [i \in 1..Len(in.content) |-> trim(in.content[i].val)]
  IN  (/\ judge.pc # "derive"
       /\ in.builtin /\ in.builtinCases = <<>> /\ base # <<>>
       /\ \A i, j \in 1..Len(in.content) : in.content[i].style = in.content[j].style)
      => IF Len(markers) >= Len(base)
         THEN /\ Len(judge.testCases) = Len(base)
              /\ \A i \in 1..Len(base) :
                   /\ judge.testCases[i].stdin = base[i].stdin
                   /\ judge.testCases[i].expected = markers[i]
         ELSE judge.testCases = base

\* C31: outputMatches is reflexive: a string matches itself, whether or not
\* it parses as JSON.
C31_MatcherReflexive ==
  (judge.pc = "returned" /\ judge.actual = judge.expected) => judge.ret

\* outputMatches has returned for a text against itself that is not JSON and
\* that normalization changes.
C31_Witness ==
  /\ judge.pc = "returned" /\ judge.ret
  /\ judge.actual = judge.expected
  /\ judge.actual = <<"a", " ">>
  /\ ~JSONparse(trim(judge.actual)).ok
  /\ normalizeOutput(judge.actual) # judge.actual

\* C32: a test run reports a case with a non-empty expected value as passed
\* only when outputMatches accepts the trimmed output against the expected
\* value of the case.
C32_PassedOnlyByMatcher ==
  (judge.pc = "responded" /\ judge.in.handler = "run-tests")
  => \A i \in 1..Len(judge.resp.results) :
       LET r == judge.resp.results[i]
           tc == judge.testCases[i]
       IN  (r.passed /\ ~NoExpected(tc.expected))
           => outputMatches(r.actual, tc.expected)

\* C33: within one test run or submit validation at most one execution is
\* in flight, and it is the execution of the case that follows the cases
\* whose results are available: case i + 1 runs only after cases 1..i have
\* been judged, and no execution is left when the request is answered.
C33_OneCaseAtATime ==
  /\ judge.pc = "loop"
     => /\ judge.running = {judge.i + 1}
        /\ judge.i < Len(judge.testCases)
        /\ judge.in.handler = "run-tests" => Len(judge.results) = judge.i
  /\ judge.pc \in {"derive", "responded"} => judge.running = {}

\* The second of two cases is being executed after the first was judged.
C33_Witness ==
  /\ judge.pc = "loop"
  /\ Len(judge.testCases) = 2
  /\ judge.i = 1
  /\ judge.running = {2}

\* C34: on the remote path and in every local runner, a call with blank
\* stdin whose source defines its own entry point executes the submitted
\* source unchanged.
C34_OwnEntryPointRunsUnchanged ==
  (judge.pc = "built" /\ ~judge.in.hasStdin /\ judge.in.hasMain)
  => judge.program = Unchanged

\* runLocalC has kept a source with its own main, a method name in the
\* metadata and a function over an int array as it is.
C34_Witness ==
  /\ judge.pc = "built" /\ judge.path = "local"
  /\ judge.in.language = "c"
  /\ ~judge.in.hasStdin /\ judge.in.hasMain
  /\ judge.in.methodName /\ judge.in.hasIntReturnAndArrayParam
  /\ judge.program = Unchanged

\* C35: the submission timestamp a player has recorded is not changed by a
\* later submit of the same player: the step of submit that records runtime
\* and timestamp leaves a timestamp that is already recorded as it is.
C35_FirstSubmissionTimestampKept ==
  [][\A u \in Users :
       (/\ At(reqs[u], "submit", "record") /\ StepOf(u)
        /\ db.rows[u].present /\ db.rows[u].submitted_at # Null)
       => db'.rows[u].submitted_at = db.rows[u].submitted_at]_vars

\* C36: once the match is committed complete, no step changes its status
\* or any field of its player rows (runtime, submission timestamp, elo_after,
\* is_winner), and no row is added or removed.
C36_CompleteMatchIsFrozen ==
  [][Committed.status = "complete"
     => /\ db'.status = "complete"
        /\ db'.rows = Committed.rows]_vars

\* C39: in every committed state a user is a player of at most one match
\* whose status is waiting or active, whatever the interleaving of
\* create-match, join-match and queue-join requests.
C39_AtMostOneCurrentMatch ==
  \A u \in Users : Cardinality(ActiveMatchesOf(Committed, u)) <= 1

\* C40: in every committed state no user has a row in matchmaking_queue
\* while being a player of a waiting or active match.
C40_NoQueueEntryWhileInMatch ==
  \A u \in Users : u \in Queued(Committed) => ~findActiveMatchForUser(Committed, u)

\* elo_after - elo_before of the user's row in a ranked match that has been
\* finalized, and 0 for any other match.
RatingDelta(d, m, u) ==
  LET row == d.matches[m].rows[u]
  IN  IF d.matches[m].ranked /\ d.matches[m].status = "complete"
         /\ row.present /\ row.elo_after # Null
      THEN row.elo_after - row.elo_before
      ELSE 0

\* C37: in every committed state the persistent rating of a user is the
\* rating they had before any match plus the sum, over their finalized
\* ranked matches, of elo_after - elo_before.
C37_RatingIsSumOfDeltas ==
  \A u \in Users :
    Committed.elo[u] = DefaultElo[u] + RatingDelta(Committed, "m1", u)
                                     + RatingDelta(Committed, "m2", u)

\* C38: the rating update of a finalizing submit is the same when the two
\* players are passed the other way round: computeEloUpdate of b's rating,
\* score and runtime as A and a's as B gives the k of the response and, for
\* each player, the rating the finalization wrote.
C38_UpdateSymmetricInPlayers ==
  (last.op = "submit" /\ last.computed /\ last.kind = "complete" /\ db.ranked)
  => LET players == OrderedPlayers(db)
         ra == db.rows[players[1]]
         rb == db.rows[players[2]]
         score2A == IF submittedAt(ra) < submittedAt(rb) THEN 2
                    ELSE IF submittedAt(rb) < submittedAt(ra) THEN 0 ELSE 1
         swapped == computeEloUpdate(rb.elo_before, ra.elo_before,
                                     2 - score2A, score2A,
                                     rb.runtime_ms, ra.runtime_ms)
     IN  /\ swapped.k = last.k
         /\ swapped.newEloA = rb.elo_after
         /\ swapped.newEloB = ra.elo_after

============================================================================
